---- MODULE Spec2Model ----
(***************************************************************************)
(* Model of the V2 Insights MCP server: the HTML scraper (scraper.py),     *)
(* the Contentful GraphQL client (contentful_client.py), the summarizer    *)
(* (summarizer.py) and the tool functions built on them (main.py).         *)
(*                                                                         *)
(* Python values that come out of a JSON document are tagged records       *)
(* [t |-> tag, v |-> payload]; Python str values that the code itself      *)
(* builds (titles, contents, messages) are TLA+ strings.  An operator that *)
(* models a Python expression which can raise returns a record with a      *)
(* field "raised".                                                         *)
(***************************************************************************)
EXTENDS Integers, Sequences, FiniteSets, TLC

\* The server is synchronous and keeps nothing between two calls: a
\* behaviour is a sequence of calls, each made from the idle state.
\* call: the operation in progress, with its arguments and with what the
\*       environment, the network and the summarization service gave it;
\*       op = "none" when the server is idle
\* ret:  what the operation returned
\* log:  the outbound calls and the extraction steps it made, in order
VARIABLES call, ret, log

vars == <<call, ret, log>>

(***************************************************************************)
(* Bounds of the model.                                                    *)
(***************************************************************************)
\* longest list of items in a modelled GraphQL response
MaxItems == 2
\* most children of a rich-text container, and most nodes of a document
MaxKids == 2

(***************************************************************************)
(* Python strings.                                                         *)
(***************************************************************************)
\* sub in s
Contains(s, sub) ==
    \E i \in 1..(Len(s) - Len(sub) + 1) : SubSeq(s, i, i + Len(sub) - 1) = sub

\* the concatenation of a sequence of sequences
RECURSIVE Flatten(_)
Flatten(seqs) == IF Len(seqs) = 0 THEN <<>> ELSE Head(seqs) \o Flatten(Tail(seqs))

\* sep.join(strs)
RECURSIVE Join(_, _)
Join(strs, sep) ==
    IF Len(strs) = 0 THEN ""
    ELSE IF Len(strs) = 1 THEN strs[1]
    ELSE strs[1] \o sep \o Join(Tail(strs), sep)

(***************************************************************************)
(* JSON values as Python sees them after response.json().                  *)
(***************************************************************************)
\* the dict with the given keys and values, written as <<key, value>> pairs
DictOf(pairs) ==
    [k \in {pairs[i][1] : i \in 1..Len(pairs)} |->
        pairs[CHOOSE i \in 1..Len(pairs) : pairs[i][1] = k][2]]
\* t is the type, and the payload is in the field of that type: s for a
\* str, n for an int, l for a list, d for a dict
JNull == [t |-> "null", s |-> "", n |-> 0, l |-> <<>>, d |-> DictOf(<<>>)]
JStr(str) == [JNull EXCEPT !.t = "str", !.s = str]
JInt(int) == [JNull EXCEPT !.t = "int", !.n = int]
JList(seq) == [JNull EXCEPT !.t = "list", !.l = seq]
JDict(fn) == [JNull EXCEPT !.t = "dict", !.d = fn]
EmptyDict == JDict(DictOf(<<>>))

\* bool(x)
Truthy(x) ==
    CASE x.t = "null" -> FALSE
      [] x.t = "str" -> x.s # ""
      [] x.t = "int" -> x.n # 0
      [] x.t = "list" -> Len(x.l) > 0
      [] x.t = "dict" -> DOMAIN x.d # {}

\* key in d, for a dict d
HasKey(d, key) == key \in DOMAIN d.d

\* d.get(key, default), for a dict d
Get(d, key, default) == IF HasKey(d, key) THEN d.d[key] ELSE default

\* the order in which the keys of the modelled JSON documents are written
KeyOrder ==
    <<"message", "nodeType", "value", "content", "json", "name", "fullName",
      "id", "publishedAt", "createdAt", "sys", "title", "slug", "author",
      "publishedDate", "publishDate", "date", "data", "errors", "items",
      "blogPost", "pageBlogPost", "blogPostCollection",
      "pageBlogPostCollection">>

\* the keys of a dict, in document order
KeysOf(d) == SelectSeq(KeyOrder, LAMBDA k : k \in DOMAIN d.d)

\* repr(x), which str() and an f-string use for lists and dicts
RECURSIVE PyRepr(_)
PyRepr(x) ==
    CASE x.t = "null" -> "None"
      [] x.t = "str" -> "'" \o x.s \o "'"
      [] x.t = "int" -> ToString(x.n)
      [] x.t = "list" ->
            "[" \o Join([i \in 1..Len(x.l) |-> PyRepr(x.l[i])], ", ") \o "]"
      [] x.t = "dict" ->
            LET ks == KeysOf(x)
            IN "{" \o Join([i \in 1..Len(ks) |->
                              "'" \o ks[i] \o "': " \o PyRepr(x.d[ks[i]])], ", ")
                   \o "}"

\* str(x)
PyStr(x) == IF x.t = "str" THEN x.s ELSE PyRepr(x)

\* the outcome of an expression: its value, or the exception it raised
Returned(x) == [raised |-> FALSE, val |-> x]
Raised(msg) == [raised |-> TRUE, val |-> JStr(msg)]

\* type(x).__name__
PyTypeName(x) == IF x.t = "null" THEN "NoneType" ELSE x.t

(***************************************************************************)
(* contentful_client.py: rich text.                                        *)
(***************************************************************************)

\* what "for child in x" yields; iterating a dict yields its keys and
\* iterating a str its characters, and None and int are not iterable
IterOf(x) ==
    CASE x.t = "list" -> Returned(x)
      [] x.t = "dict" ->
            Returned(JList([i \in 1..Len(KeysOf(x)) |-> JStr(KeysOf(x)[i])]))
      [] x.t = "str" ->
            Returned(JList([i \in 1..Len(x.s) |-> JStr(SubSeq(x.s, i, i))]))
      [] OTHER -> Raised("'" \o PyTypeName(x) \o "' object is not iterable")

\* a join that leaves out the results that are empty
JoinResults_SkipsEmpty(results) ==
    IF \E i \in 1..Len(results) : results[i].raised
    THEN Raised("raised in a child")
    ELSE IF \E i \in 1..Len(results) : results[i].val.t # "str"
    THEN Raised("sequence item: expected str instance")
    ELSE LET kept == SelectSeq(results, LAMBDA r : r.val.s # "")
         IN Returned(JStr(Join([i \in 1..Len(kept) |-> kept[i].val.s], " ")))

\* " ".join(results): a result that raised propagates, a result that is not
\* a str makes join raise TypeError
JoinResults(results) ==
    IF \E i \in 1..Len(results) : results[i].raised
    THEN Raised("raised in a child")
    ELSE IF \E i \in 1..Len(results) : results[i].val.t # "str"
    THEN Raised("sequence item: expected str instance")
    ELSE Returned(JStr(Join([i \in 1..Len(results) |-> results[i].val.s], " ")))

RECURSIVE extract_text_from_node(_)
JoinChildren(x) ==
    LET Joined(it) ==
            IF it.raised THEN it
            ELSE JoinResults([i \in 1..Len(it.val.l) |->
                                extract_text_from_node(it.val.l[i])])
    IN Joined(IterOf(x))

\* a text node must have a value: node["value"]
extract_text_from_node_RequiresValue(node) ==
    IF node.t = "dict"
    THEN IF HasKey(node, "nodeType") /\ node.d["nodeType"].t = "str"
            /\ node.d["nodeType"].s = "text"
         THEN IF HasKey(node, "value") THEN Returned(node.d["value"])
              ELSE Raised("'value'")
         ELSE IF HasKey(node, "content")
         THEN JoinChildren(node.d["content"])
         ELSE Returned(JStr(""))
    ELSE IF node.t = "list"
    THEN JoinChildren(node)
    ELSE Returned(JStr(""))

\* lines 185-195
extract_text_from_node(node) ==
    IF node.t = "dict"
    THEN IF HasKey(node, "nodeType") /\ node.d["nodeType"].t = "str"
            /\ node.d["nodeType"].s = "text"
         THEN Returned(Get(node, "value", JStr("")))
         ELSE IF HasKey(node, "content")
         THEN JoinChildren(node.d["content"])
         ELSE Returned(JStr(""))
    ELSE IF node.t = "list"
    THEN JoinChildren(node)
    ELSE Returned(JStr(""))

\* _extract_content_from_json: the text, "" when anything raised
_extract_content_from_json(content_json) ==
    IF ~Truthy(content_json) THEN ""
    ELSE IF content_json.t = "dict"
    THEN IF HasKey(content_json, "content")
         THEN LET TextOf(result) ==
                      IF result.raised THEN ""
                      ELSE IF Truthy(result.val) THEN PyStr(result.val) ELSE ""
              IN TextOf(extract_text_from_node(content_json.d["content"]))
         ELSE ""
    \* "content" in x is a substring or an element test on a str or a list
    \* and x["content"] then raises TypeError; on an int the test itself raises
    ELSE ""

(***************************************************************************)
(* contentful_client.py: one entry of a response.                          *)
(***************************************************************************)
PyNone == JNull
IsNone(x) == "t" \in DOMAIN x /\ x.t = "null"

\* x.get(key, default) as an expression that raises AttributeError when x
\* is not a dict
TryGet(x, key, default) ==
    IF x.t = "dict" THEN Returned(Get(x, key, default))
    ELSE Raised("'" \o PyTypeName(x) \o "' object has no attribute 'get'")

\* item.get(outer, {}).get(inner, default)
TryGet2(item, outer, inner, default) ==
    LET Inner(o) == IF o.raised THEN o ELSE TryGet(o.val, inner, default)
    IN Inner(TryGet(item, outer, EmptyDict))

\* lines 150-155
AuthorOf(item) ==
    LET NameOf(author_data) ==
            IF author_data.raised THEN author_data
            ELSE IF Truthy(author_data.val)
            THEN TryGet(author_data.val, "name", JStr("Unknown Author"))
            ELSE Returned(JStr("Unknown Author"))
    IN NameOf(TryGet(item, "author", EmptyDict))

\* lines 158-160
PublishDateOf(item) ==
    LET OrPublishedAt(first) ==
            IF first.raised THEN first
            ELSE IF Truthy(first.val) THEN first
            ELSE TryGet2(item, "sys", "publishedAt", JStr(""))
    IN OrPublishedAt(TryGet(item, "publishedDate", PyNone))

\* lines 142-147
ContentOf(item) ==
    LET TextOf(content_json) ==
            IF content_json.raised THEN content_json
            ELSE IF Truthy(content_json.val)
            THEN Returned(JStr(_extract_content_from_json(content_json.val)))
            ELSE Returned(JStr("No content available"))
    IN TextOf(TryGet2(item, "content", "json", EmptyDict))

UrlOf_AlwaysPrefixed(slug) == "https://v2.ai/insights/" \o PyStr(slug)

\* line 163
UrlOf(slug) ==
    IF Truthy(slug) THEN "https://v2.ai/insights/" \o PyStr(slug) ELSE ""

\* lines 134-179: the Post, or None when any step raised.  A field of a Post
\* holds the value the code put there: title, date and author go through
\* str(), and id is whatever the entry held
_extract_graphql_post_data(item) ==
    LET PostOf(title, slug, content, author, publish_date, entry_id) ==
            IF \/ title.raised \/ slug.raised \/ content.raised \/ author.raised
               \/ publish_date.raised \/ entry_id.raised
            THEN PyNone
            ELSE [title |-> JStr(PyStr(title.val)),
                  date |-> JStr(PyStr(publish_date.val)),
                  author |-> JStr(PyStr(author.val)),
                  content |-> content.val,
                  url |-> JStr(UrlOf(slug.val)),
                  id |-> entry_id.val]
    IN PostOf(TryGet(item, "title", JStr("No title")),
              TryGet(item, "slug", JStr("")),
              ContentOf(item),
              AuthorOf(item),
              PublishDateOf(item),
              TryGet2(item, "sys", "id", JStr("")))

(***************************************************************************)
(* The network: what requests.get / requests.post can come back with.      *)
(***************************************************************************)
\* the call raised (ConnectionError, Timeout)
NetExc(msg) == [kind |-> "exc", msg |-> msg, status |-> 0, isjson |-> FALSE,
                json |-> JNull]
\* a response whose body is the JSON document json
HttpJson(status, json) == [kind |-> "http", msg |-> "", status |-> status,
                           isjson |-> TRUE, json |-> json]
\* a response whose body is no JSON document
HttpOther(status) == [kind |-> "http", msg |-> "", status |-> status,
                      isjson |-> FALSE, json |-> JNull]

\* the message of the HTTPError that response.raise_for_status() raises
HTTPErrorMessage(status, url) ==
    IF status < 500
    THEN ToString(status) \o " Client Error: Not Found for url: " \o url
    ELSE ToString(status) \o " Server Error: Internal Server Error for url: " \o url

\* response.raise_for_status(): raises for 400 <= status < 600
raise_for_status(outcome, url) ==
    IF outcome.status >= 400 /\ outcome.status < 600
    THEN Raised(HTTPErrorMessage(outcome.status, url))
    ELSE Returned(JNull)

\* requests.post(...); response.raise_for_status(); data = response.json()
PostAndParse(outcome, url) ==
    LET Checked(status) ==
            IF status.raised THEN status
            ELSE IF ~outcome.isjson
            THEN Raised("Expecting value: line 1 column 1 (char 0)")
            ELSE Returned(outcome.json)
    IN IF outcome.kind = "exc" THEN Raised(outcome.msg)
       ELSE Checked(raise_for_status(outcome, url))

(***************************************************************************)
(* contentful_client.py: the client and its queries.                       *)
(***************************************************************************)
\* ContentfulClient.__init__, lines 28-48; raises ValueError without
\* credentials
ContentfulClient(space_id, access_token) ==
    IF space_id = "" THEN Raised("Contentful space_id is required. "
                                 \o "Set CONTENTFUL_SPACE_ID environment variable.")
    ELSE IF access_token = ""
    THEN Raised("Contentful access_token is required for GraphQL API. "
                \o "Set CONTENTFUL_ACCESS_TOKEN environment variable.")
    ELSE Returned(JStr("https://graphql.contentful.com/content/v1/spaces/"
                       \o space_id \o "/environments/master"))

\* a test for a non-empty value: data.get("errors")
HasErrors_NonEmpty(data) ==
    CASE data.t = "dict" ->
            Returned(HasKey(data, "errors") /\ Truthy(data.d["errors"]))
      [] OTHER -> Raised("'" \o PyTypeName(data) \o "' object has no attribute 'get'")

\* "errors" in data
HasErrors(data) ==
    CASE data.t = "dict" -> Returned(HasKey(data, "errors"))
      [] data.t = "list" ->
            Returned(\E i \in 1..Len(data.l) :
                        data.l[i].t = "str" /\ data.l[i].s = "errors")
      [] data.t = "str" -> Returned(Contains(data.s, "errors"))
      [] OTHER -> Raised("argument of type '" \o PyTypeName(data)
                         \o "' is not iterable")

\* lines 121-132
_error_response(error_message) ==
    <<[title |-> JStr("Error fetching from Contentful"), date |-> JStr(""),
       author |-> JStr(""), content |-> JStr(error_message), url |-> JStr(""),
       id |-> JStr("")]>>

\* an error list that holds the message in the title only
SearchError_DropsMessage(title, message) ==
    <<[title |-> JStr(title \o ": " \o message), date |-> JStr(""),
       author |-> JStr(""), content |-> JStr(""), url |-> JStr(""),
       id |-> JStr("")]>>

\* the one-element list that the two search operations return on an error,
\* lines 380-389, 407-416, 512-521 and 539-548
SearchError(title, message) ==
    <<[title |-> JStr(title), date |-> JStr(""), author |-> JStr(""),
       content |-> JStr(message), url |-> JStr(""), id |-> JStr("")]>>

\* data.get("data", {}).get(f"{content_type}Collection", {}).get("items", [])
ItemsOf(data, content_type) ==
    LET ItemsIn(coll) ==
            IF coll.raised THEN coll ELSE TryGet(coll.val, "items", JList(<<>>))
    IN ItemsIn(TryGet2(data, "data", content_type \o "Collection", EmptyDict))

\* a loop that an item without a Post ends
RECURSIVE PostsOf_StopsAtFailure(_)
PostsOf_StopsAtFailure(items) ==
    IF Len(items) = 0 THEN <<>>
    ELSE LET Appended(post_data) ==
                 IF IsNone(post_data) THEN <<>>
                 ELSE <<post_data>> \o PostsOf_StopsAtFailure(Tail(items))
         IN Appended(_extract_graphql_post_data(Head(items)))

\* posts = []; for item in items: ... if post_data: posts.append(post_data)
RECURSIVE PostsOf(_)
PostsOf(items) ==
    IF Len(items) = 0 THEN <<>>
    ELSE LET Appended(post_data) ==
                 IF IsNone(post_data) THEN PostsOf(Tail(items))
                 ELSE <<post_data>> \o PostsOf(Tail(items))
         IN Appended(_extract_graphql_post_data(Head(items)))

\* the try block shared by fetch_blog_posts, search_blog_posts and
\* advanced_search_blog_posts: the request, the errors test, the loop.  It
\* ends with the Posts, or with the message of the error list to return
Posts(posts) == [failed |-> FALSE, message |-> "", posts |-> posts]
Failed(message) == [failed |-> TRUE, message |-> message, posts |-> <<>>]
CollectionQuery(outcome, url, content_type, errPrefix, excPrefix) ==
    LET Loop(it) ==
            IF it.raised THEN Failed(excPrefix \o it.val.s)
            ELSE Posts(PostsOf(it.val.l))
        ForItems(items) ==
            IF items.raised THEN Failed(excPrefix \o items.val.s)
            ELSE Loop(IterOf(items.val))
        ErrorsTest(data, has_errors) ==
            IF has_errors.raised THEN Failed(excPrefix \o has_errors.val.s)
            ELSE IF has_errors.val
            THEN Failed(errPrefix \o PyStr(data.d["errors"]))
            ELSE ForItems(ItemsOf(data, content_type))
        Parsed(data) ==
            IF data.raised THEN Failed(excPrefix \o data.val.s)
            ELSE ErrorsTest(data.val, HasErrors(data.val))
    IN Parsed(PostAndParse(outcome, url))

\* lines 88-119
fetch_blog_posts(outcome, url, content_type) ==
    LET Result(r) == IF r.failed THEN _error_response(r.message) ELSE r.posts
    IN Result(CollectionQuery(outcome, url, content_type,
                              "GraphQL errors: ", "Error: "))

\* lines 367-416
search_blog_posts(outcome, url, query, content_type) ==
    LET Result(r) ==
            IF r.failed
            THEN SearchError("Error searching Contentful for '" \o query \o "'",
                             r.message)
            ELSE r.posts
    IN Result(CollectionQuery(outcome, url, content_type,
                              "Search error: ", "Search error: "))

\* lines 499-548
advanced_search_blog_posts(outcome, url, query, content_type) ==
    LET Result(r) ==
            IF r.failed
            THEN SearchError("Error in advanced search for '" \o query \o "'",
                             r.message)
            ELSE r.posts
    IN Result(CollectionQuery(outcome, url, content_type,
                              "Search error: ", "Search error: "))

\* an error record with an empty id, as the error entry of a list has
SingleError_EmptyId(title, message, entry_id) ==
    [title |-> JStr(title), date |-> JStr(""), author |-> JStr(""),
     content |-> JStr(message), url |-> JStr(""), id |-> JStr("")]

\* an error record that leaves the id out
SingleError_NoId(title, message, entry_id) ==
    [title |-> JStr(title), date |-> JStr(""), author |-> JStr(""),
     content |-> JStr(message), url |-> JStr("")]

\* the Post that fetch_single_post returns on its non-success paths
SingleError(title, message, entry_id) ==
    [title |-> JStr(title), date |-> JStr(""), author |-> JStr(""),
     content |-> JStr(message), url |-> JStr(""), id |-> JStr(entry_id)]

\* lines 238-289
fetch_single_post(outcome, url, entry_id, content_type) ==
    LET Extracted(post_data) ==
            IF IsNone(post_data)
            THEN SingleError("Post not found", "Post data could not be extracted",
                             entry_id)
            ELSE post_data
        ForItem(item) ==
            IF item.raised
            THEN SingleError("Error fetching post", "Error: " \o item.val.s,
                             entry_id)
            ELSE IF ~Truthy(item.val)
            THEN SingleError("Post not found", "Post not found in Contentful",
                             entry_id)
            ELSE Extracted(_extract_graphql_post_data(item.val))
        ErrorsTest(data, has_errors) ==
            IF has_errors.raised
            THEN SingleError("Error fetching post",
                             "Error: " \o has_errors.val.s, entry_id)
            ELSE IF has_errors.val
            THEN SingleError("Error fetching post",
                             "GraphQL errors: " \o PyStr(data.d["errors"]),
                             entry_id)
            ELSE ForItem(TryGet2(data, "data", content_type, PyNone))
        Parsed(data) ==
            IF data.raised
            THEN SingleError("Error fetching post", "Error: " \o data.val.s,
                             entry_id)
            ELSE ErrorsTest(data.val, HasErrors(data.val))
    IN Parsed(PostAndParse(outcome, url))

(***************************************************************************)
(* scraper.py: the parsed document.  A node of the tree BeautifulSoup       *)
(* builds is a record; a text node has tag "#text".                        *)
(***************************************************************************)
Txt(text) == [tag |-> "#text", cls |-> {}, attrs |-> <<>>, text |-> text,
              kids |-> <<>>]
El(tag, kids) == [tag |-> tag, cls |-> {}, attrs |-> <<>>, text |-> "",
                  kids |-> kids]
ElC(tag, class, kids) == [tag |-> tag, cls |-> {class}, attrs |-> <<>>,
                          text |-> "", kids |-> kids]
ElA(tag, datetime, kids) == [tag |-> tag, cls |-> {},
                             attrs |-> [datetime |-> datetime], text |-> "",
                             kids |-> kids]

Whitespace == {" ", "\n", "\t"}

\* s.lstrip(), s.rstrip(), s.strip()
RECURSIVE LStrip(_)
LStrip(s) ==
    IF Len(s) > 0 /\ SubSeq(s, 1, 1) \in Whitespace
    THEN LStrip(SubSeq(s, 2, Len(s))) ELSE s
RECURSIVE RStrip(_)
RStrip(s) ==
    IF Len(s) > 0 /\ SubSeq(s, Len(s), Len(s)) \in Whitespace
    THEN RStrip(SubSeq(s, 1, Len(s) - 1)) ELSE s
Strip(s) == LStrip(RStrip(s))

\* the text strings under a node, in document order
RECURSIVE Strings(_)
Strings(node) ==
    IF node.tag = "#text" THEN <<node.text>>
    ELSE Flatten([i \in 1..Len(node.kids) |-> Strings(node.kids[i])])

\* element.get_text()
get_text(node) == Join(Strings(node), "")

\* element.get_text(strip=True): every string stripped, the empty ones left out
get_text_strip(node) ==
    LET Stripped(strings) == [i \in 1..Len(strings) |-> Strip(strings[i])]
    IN Join(SelectSeq(Stripped(Strings(node)), LAMBDA x : x # ""), "")

\* whether an element matches a selector: a tag name, ".class" or "[datetime]"
Matches(node, selector) ==
    /\ node.tag # "#text"
    /\ IF selector = "[datetime]" THEN "datetime" \in DOMAIN node.attrs
       ELSE IF SubSeq(selector, 1, 1) = "."
       THEN SubSeq(selector, 2, Len(selector)) \in node.cls
       ELSE node.tag = selector

\* the elements under a node that match a selector, in document order, each
\* with its parent: find_all, and select_one and find as its first element
RECURSIVE FindAll(_, _)
FindAll(node, selector) ==
    Flatten([i \in 1..Len(node.kids) |->
                (IF Matches(node.kids[i], selector)
                 THEN <<[node |-> node.kids[i], parent |-> node]>>
                 ELSE <<>>) \o FindAll(node.kids[i], selector)])

\* a removal that looks at the children of the document only
Decompose_TopLevelOnly(node, tags) ==
    [node EXCEPT !.kids = SelectSeq(node.kids, LAMBDA k : k.tag \notin tags)]

\* for element in soup([...]): element.decompose()
RECURSIVE Decompose(_, _)
Decompose(node, tags) ==
    LET kept == SelectSeq(node.kids, LAMBDA k : k.tag \notin tags)
    IN [node EXCEPT !.kids = [i \in 1..Len(kept) |-> Decompose(kept[i], tags)]]

(***************************************************************************)
(* scraper.py: the date patterns.  A pattern is a sequence of atoms, each  *)
(* a character class with a repetition range, or the word boundary \b.     *)
(***************************************************************************)
Digits == {"0", "1", "2", "3", "4", "5", "6", "7", "8", "9"}
Letters ==
    {"a", "b", "c", "d", "e", "f", "g", "h", "i", "j", "k", "l", "m", "n",
     "o", "p", "q", "r", "s", "t", "u", "v", "w", "x", "y", "z",
     "A", "B", "C", "D", "E", "F", "G", "H", "I", "J", "K", "L", "M", "N",
     "O", "P", "Q", "R", "S", "T", "U", "V", "W", "X", "Y", "Z"}

\* hi = 0 stands for no upper limit (the + of the patterns)
Atom(c, lo, hi) == [c |-> c, lo |-> lo, hi |-> hi]
WordBoundary == Atom("wb", 0, 0)

date_patterns ==
    << \* \b[A-Za-z]+ \d{1,2}, \d{4}\b
       <<WordBoundary, Atom("alpha", 1, 0), Atom("space", 1, 1),
         Atom("digit", 1, 2), Atom("comma", 1, 1), Atom("space", 1, 1),
         Atom("digit", 4, 4), WordBoundary>>,
       \* \b\d{1,2} [A-Za-z]+ \d{4}\b
       <<WordBoundary, Atom("digit", 1, 2), Atom("space", 1, 1),
         Atom("alpha", 1, 0), Atom("space", 1, 1), Atom("digit", 4, 4),
         WordBoundary>>,
       \* \b\d{1,2}[/-]\d{1,2}[/-]\d{2,4}\b
       <<WordBoundary, Atom("digit", 1, 2), Atom("sep", 1, 1),
         Atom("digit", 1, 2), Atom("sep", 1, 1), Atom("digit", 2, 4),
         WordBoundary>>,
       \* \b\d{4}[/-]\d{1,2}[/-]\d{1,2}\b
       <<WordBoundary, Atom("digit", 4, 4), Atom("sep", 1, 1),
         Atom("digit", 1, 2), Atom("sep", 1, 1), Atom("digit", 1, 2),
         WordBoundary>> >>

CharAt(s, i) == IF i >= 1 /\ i <= Len(s) THEN SubSeq(s, i, i) ELSE ""

InClass(ch, c) ==
    CASE c = "alpha" -> ch \in Letters
      [] c = "digit" -> ch \in Digits
      [] c = "space" -> ch = " "
      [] c = "comma" -> ch = ","
      [] c = "sep" -> ch \in {"/", "-"}

IsWordChar(ch) == ch \in Letters \cup Digits \cup {"_"}

\* \b between the characters i - 1 and i
AtWordBoundary(s, i) == IsWordChar(CharAt(s, i - 1)) # IsWordChar(CharAt(s, i))

\* the number of characters of class c from position i on, at most hi
RunLength(s, i, c, hi) ==
    LET Largest(ns) == CHOOSE n \in ns : \A m \in ns : m <= n
    IN Largest({n \in 0..(Len(s) - i + 1) :
                   /\ (hi = 0 \/ n <= hi)
                   /\ \A j \in i..(i + n - 1) : InClass(CharAt(s, j), c)})

\* the position after the match of pat[k..] that starts at i, 0 if there is
\* none; repetitions are greedy and give characters back
RECURSIVE MatchEnd(_, _, _, _)
MatchEnd(pat, k, s, i) ==
    IF k > Len(pat) THEN i
    ELSE IF pat[k].c = "wb"
    THEN IF AtWordBoundary(s, i) THEN MatchEnd(pat, k + 1, s, i) ELSE 0
    ELSE LET \* the ends of the rest of the pattern after n characters
             Longest(ends) ==
                 IF ends = {} THEN 0
                 ELSE (CHOOSE e \in ends : \A f \in ends : f.n <= e.n).end
             Matched(ends) == Longest({e \in ends : e.end # 0})
             Tried(run) ==
                 Matched({[n |-> n, end |-> MatchEnd(pat, k + 1, s, i + n)] :
                             n \in pat[k].lo..run})
         IN Tried(RunLength(s, i, pat[k].c, pat[k].hi))

\* re.search(pattern, s): the leftmost match, as [found, text, start]
re_search(pat, s) ==
    LET First(m) == [found |-> TRUE, text |-> m.text, start |-> m.start]
        Leftmost(matches) ==
            IF matches = {} THEN [found |-> FALSE, text |-> "", start |-> 0]
            ELSE First(CHOOSE m \in matches : \A o \in matches : m.start <= o.start)
        Matches1(ends) ==
            Leftmost({[start |-> e.start, text |-> SubSeq(s, e.start, e.end - 1)] :
                         e \in {x \in ends : x.end # 0}})
    IN Matches1({[start |-> i, end |-> MatchEnd(pat, 1, s, i)] :
                    i \in 1..(Len(s) + 1)})

\* a substitution that removes what precedes the name and keeps the name
StripAuthorName_KeepsName(date) ==
    LET FromLast(at) ==
            IF at = {} THEN date
            ELSE SubSeq(date, CHOOSE x \in at : \A y \in at : y <= x, Len(date))
    IN FromLast({i \in 1..(Len(date) - 4) : SubSeq(date, i, i + 4) = "Rodan"})

\* re.sub(r".*?Rodan\s*", "", date): every leftmost lazy match is removed,
\* which leaves what follows the last "Rodan" and the whitespace after it
StripAuthorName(date) ==
    LET AfterLast(at) ==
            IF at = {} THEN date
            ELSE LStrip(SubSeq(date, (CHOOSE x \in at : \A y \in at : y <= x) + 5,
                               Len(date)))
    IN AfterLast({i \in 1..(Len(date) - 4) : SubSeq(date, i, i + 4) = "Rodan"})

(***************************************************************************)
(* scraper.py: fetch_blog_post.                                            *)
(***************************************************************************)
\* what requests.get can come back with: an exception of the
\* RequestException family, a response whose body parses to doc, or a
\* response whose body makes BeautifulSoup raise (ParserRejectedMarkup,
\* RecursionError), which is no RequestException
GetExc(msg) == [kind |-> "exc", msg |-> msg, status |-> 0, doc |-> El("[document]", <<>>)]
GetHttp(status, doc) == [kind |-> "http", msg |-> "", status |-> status, doc |-> doc]
GetUnparsable(status, msg) ==
    [kind |-> "badhtml", msg |-> msg, status |-> status, doc |-> El("[document]", <<>>)]

\* what the log holds: the outbound requests and the extraction steps
HttpGet(url) == [what |-> "GET", arg |-> url]
Step(name) == [what |-> name, arg |-> ""]

\* a title looked up after the removal of lines 77-78
TitleOf_AfterRemoval(soup) ==
    LET TextOf(title_element) ==
            IF Len(title_element) > 0 THEN get_text_strip(title_element[1].node)
            ELSE "No title found"
    IN TextOf(FindAll(Decompose(soup, {"script", "style", "nav", "header", "footer"}),
                      "h1"))

\* lines 18-21
TitleOf(soup) ==
    LET TextOf(title_element) ==
            IF Len(title_element) > 0 THEN get_text_strip(title_element[1].node)
            ELSE "No title found"
    IN TextOf(FindAll(soup, "h1"))

\* a loop that takes the match that comes first in the text, whatever its
\* pattern
DateFromPatterns_ByPosition(container_text, k) ==
    LET Cleaned(date) ==
            IF Contains(date, "Rodan") THEN StripAuthorName(date) ELSE date
        Earliest(found) ==
            IF found = {} THEN ""
            ELSE Cleaned(Strip((CHOOSE m \in found :
                                   \A o \in found : m.start <= o.start).text))
    IN Earliest({m \in {re_search(date_patterns[j], container_text) :
                            j \in k..Len(date_patterns)} : m.found})

\* lines 42-49: the first pattern, in list order, that matches; "" if none
RECURSIVE DateFromPatterns(_, _)
DateFromPatterns(container_text, k) ==
    IF k > Len(date_patterns) THEN ""
    ELSE LET Cleaned(date) ==
                 IF Contains(date, "Rodan") THEN StripAuthorName(date) ELSE date
             Found(match) ==
                 IF match.found THEN Cleaned(Strip(match.text))
                 ELSE DateFromPatterns(container_text, k + 1)
         IN Found(re_search(date_patterns[k], container_text))

\* lines 36-49
DateNearTitle(soup) ==
    LET Near(title_area) ==
            IF Len(title_area) > 0
            THEN DateFromPatterns(get_text(title_area[1].parent), 1)
            ELSE ""
    IN Near(FindAll(soup, "h1"))

date_selectors ==
    <<"time", "[datetime]", ".date", ".published", ".post-date", ".meta-date",
      ".publish-date">>

\* a lookup that prefers the element's text
DateTextOf_TextFirst(date_element) ==
    IF get_text_strip(date_element) # "" THEN get_text_strip(date_element)
    ELSE IF "datetime" \in DOMAIN date_element.attrs
    THEN date_element.attrs["datetime"] ELSE ""

\* date_element.get("datetime") or date_element.get_text(strip=True)
DateTextOf(date_element) ==
    IF "datetime" \in DOMAIN date_element.attrs /\ date_element.attrs["datetime"] # ""
    THEN date_element.attrs["datetime"]
    ELSE get_text_strip(date_element)

\* lines 63-71
RECURSIVE DateFromSelectors(_, _)
DateFromSelectors(soup, k) ==
    IF k > Len(date_selectors) THEN ""
    ELSE LET Text(date_text) ==
                 IF date_text # "" THEN date_text
                 ELSE DateFromSelectors(soup, k + 1)
             Selected(found) ==
                 IF Len(found) > 0 THEN Text(DateTextOf(found[1].node))
                 ELSE DateFromSelectors(soup, k + 1)
         IN Selected(FindAll(soup, date_selectors[k]))

\* lines 25-74
DateOf(soup) ==
    LET OrNotFound(date) == IF date = "" THEN "Date not found" ELSE date
        OrSelected(date) ==
            OrNotFound(IF date = "" THEN DateFromSelectors(soup, 1) ELSE date)
    IN OrSelected(DateNearTitle(soup))

\* a list that tries article before the classes
content_selectors_ArticleFirst ==
    <<"main", "article", ".content", ".post-content", ".article-content",
      ".entry-content">>

content_selectors ==
    <<"main", ".content", ".post-content", ".article-content", "article",
      ".entry-content">>

\* a join that keeps the empty paragraphs
ParagraphText_KeepsEmpty(paragraphs) ==
    Join([i \in 1..Len(paragraphs) |-> get_text_strip(paragraphs[i].node)], "\n\n")

\* "\n\n".join([p.get_text(strip=True) for p in paragraphs if p.get_text(strip=True)])
ParagraphText(paragraphs) ==
    Join(SelectSeq([i \in 1..Len(paragraphs) |->
                        get_text_strip(paragraphs[i].node)],
                   LAMBDA x : x # ""), "\n\n")

\* lines 90-104: the loop ends at the first selector whose element holds
\* paragraphs, whatever their text
RECURSIVE ContentFromSelectors(_, _)
ContentFromSelectors(soup, k) ==
    IF k > Len(content_selectors) THEN ""
    ELSE LET Joined(paragraphs) ==
                 IF Len(paragraphs) > 0 THEN ParagraphText(paragraphs)
                 ELSE ContentFromSelectors(soup, k + 1)
             Selected(content_element) ==
                 IF Len(content_element) > 0
                 THEN Joined(FindAll(content_element[1].node, "p"))
                 ELSE ContentFromSelectors(soup, k + 1)
         IN Selected(FindAll(soup, content_selectors[k]))

\* lines 76-114, on the tree as the title and the date left it
ContentOfPage(soup) ==
    LET OrNotFound(content) ==
            IF content = "" THEN "Content not found" ELSE content
        OrAllParagraphs(stripped, content) ==
            OrNotFound(IF content = "" THEN ParagraphText(FindAll(stripped, "p"))
                       ELSE content)
        From(stripped) == OrAllParagraphs(stripped, ContentFromSelectors(stripped, 1))
    IN From(Decompose(soup, {"script", "style", "nav", "header", "footer"}))

\* an error Post that keeps the page's author
RequestErrorPost_KeepsAuthor(msg, url) ==
    [title |-> JStr("Error fetching post"), date |-> JStr(""),
     author |-> JStr("Ashley Rodan"), content |-> JStr("Error: " \o msg),
     url |-> JStr(url)]

\* lines 124-131
RequestErrorPost(msg, url) ==
    [title |-> JStr("Error fetching post"), date |-> JStr(""), author |-> JStr(""),
     content |-> JStr("Error: " \o msg), url |-> JStr(url)]

\* lines 11-131: the Post, and the steps that ran to make it; an exception
\* that is no RequestException passes the except clause of line 124
fetch_blog_post(outcome, url) ==
    LET Checked(status) ==
            IF status.raised
            THEN [raised |-> FALSE, val |-> RequestErrorPost(status.val.s, url),
                  steps |-> <<HttpGet(url)>>]
            ELSE IF outcome.kind = "badhtml"
            THEN [raised |-> TRUE, val |-> [exception |-> JStr(outcome.msg)],
                  steps |-> <<HttpGet(url), Step("parse")>>]
            ELSE [raised |-> FALSE,
                  val |-> [title |-> JStr(TitleOf(outcome.doc)),
                           date |-> JStr(DateOf(outcome.doc)),
                           author |-> JStr("Ashley Rodan"),
                           content |-> JStr(ContentOfPage(outcome.doc)),
                           url |-> JStr(url)],
                  steps |-> <<HttpGet(url), Step("parse"), Step("title"),
                              Step("date"), Step("decompose"), Step("content")>>]
    IN IF outcome.kind = "exc"
       THEN [raised |-> FALSE, val |-> RequestErrorPost(outcome.msg, url),
             steps |-> <<HttpGet(url)>>]
       ELSE Checked(raise_for_status(outcome, url))

(***************************************************************************)
(* summarizer.py and main.py.                                              *)
(***************************************************************************)
\* what summarize's try block can meet: the chat completion answers, the
\* chat completion raises, or OpenAI(api_key=None) raises before any request
SumOk(text) == [kind |-> "ok", text |-> text, sent |-> TRUE]
SumExc(msg) == [kind |-> "exc", text |-> msg, sent |-> TRUE]
SumNoClient(msg) == [kind |-> "exc", text |-> msg, sent |-> FALSE]

HttpPost(url) == [what |-> "POST", arg |-> url]
OpenAIUrl == "https://api.openai.com/v1/chat/completions"

\* a summarize that loses the cause of the failure
summarize_DropsCause(text, answer) ==
    [val |-> IF answer.kind = "ok" THEN answer.text
             ELSE "Error generating summary",
     calls |-> IF answer.sent THEN <<HttpPost(OpenAIUrl)>> ELSE <<>>]

\* a summarize that calls the chat completion again after a failure
summarize_RetriesOnError(text, answer) ==
    [val |-> IF answer.kind = "ok" THEN answer.text
             ELSE "Error generating summary: " \o answer.text,
     calls |-> IF ~answer.sent THEN <<>>
               ELSE IF answer.kind = "ok" THEN <<HttpPost(OpenAIUrl)>>
               ELSE <<HttpPost(OpenAIUrl), HttpPost(OpenAIUrl)>>]

\* summarizer.py lines 10-32: the returned string and the requests made
summarize(text, answer) ==
    [val |-> IF answer.kind = "ok" THEN answer.text
             ELSE "Error generating summary: " \o answer.text,
     calls |-> IF answer.sent THEN <<HttpPost(OpenAIUrl)>> ELSE <<>>]

\* os.getenv(key, default); an unset variable is no key of env
getenv(e, key, default) == IF key \in DOMAIN e THEN e[key] ELSE default

\* a test that looks at the space id only
NotConfigured_SpaceIdOnly(e) == getenv(e, "CONTENTFUL_SPACE_ID", "") = ""

\* not os.getenv("CONTENTFUL_SPACE_ID") or not os.getenv("CONTENTFUL_ACCESS_TOKEN")
NotConfigured(e) ==
    \/ getenv(e, "CONTENTFUL_SPACE_ID", "") = ""
    \/ getenv(e, "CONTENTFUL_ACCESS_TOKEN", "") = ""

NotConfiguredError ==
    [error |-> JStr("Contentful not configured. Set CONTENTFUL_SPACE_ID and "
                    \o "CONTENTFUL_ACCESS_TOKEN environment variables.")]

\* the calls of main.py that the log holds
SummarizeCall(text) == [what |-> "summarize", arg |-> text]
NewClient == [what |-> "ContentfulClient", arg |-> ""]
FetchSingleCall(post_id) == [what |-> "fetch_single_post", arg |-> post_id]

\* a test that takes "Error" for an error as well
CarriesError_AnyCase(post) ==
    Contains(post.content.s, "error") \/ Contains(post.content.s, "Error")

\* main.py line 31: "error" in post.get("content", "")
CarriesError(post) == Contains(post.content.s, "error")

\* main.py lines 18-43: the returned value and the outbound calls made
_summarize_post(e, post_id, outcome, answer) ==
    LET View(post, url, summary) ==
            [val |-> [title |-> post.title, date |-> post.date,
                      author |-> post.author, url |-> post.url,
                      summary |-> JStr(summary.val)],
             calls |-> <<NewClient, FetchSingleCall(post_id), HttpPost(url),
                         SummarizeCall(post.content.s)>> \o summary.calls]
        Summarized(post, url) ==
            IF CarriesError(post)
            THEN [val |-> post,
                  calls |-> <<NewClient, FetchSingleCall(post_id), HttpPost(url)>>]
            ELSE View(post, url, summarize(post.content.s, answer))
        WithClient(client) ==
            IF client.raised
            THEN [val |-> [error |-> JStr("Error summarizing post: "
                                          \o client.val.s)],
                  calls |-> <<NewClient>>]
            ELSE Summarized(fetch_single_post(outcome, client.val.s, post_id,
                                              getenv(e, "CONTENTFUL_CONTENT_TYPE",
                                                     "blogPost")),
                            client.val.s)
    IN IF NotConfigured(e) THEN [val |-> NotConfiguredError, calls |-> <<>>]
       ELSE WithClient(ContentfulClient(getenv(e, "CONTENTFUL_SPACE_ID", ""),
                                        getenv(e, "CONTENTFUL_ACCESS_TOKEN", "")))

\* a dict or a list that a tool returns, with the calls made on the way
DictResult(dict, calls) == [list |-> FALSE, val |-> dict, posts |-> <<>>, calls |-> calls]
ListResult(posts, calls) ==
    [list |-> TRUE, val |-> [error |-> JStr("")], posts |-> posts, calls |-> calls]
ErrorResult(prefix, exc, calls) ==
    DictResult([error |-> JStr(prefix \o exc.val.s)], calls)

\* main.py lines 46-59
_get_post_content(e, post_id, outcome) ==
    LET WithClient(client) ==
            IF client.raised
            THEN ErrorResult("Error fetching post: ", client, <<NewClient>>)
            ELSE DictResult(fetch_single_post(outcome, client.val.s, post_id,
                                              getenv(e, "CONTENTFUL_CONTENT_TYPE",
                                                     "blogPost")),
                            <<NewClient, FetchSingleCall(post_id),
                              HttpPost(client.val.s)>>)
    IN IF NotConfigured(e) THEN DictResult(NotConfiguredError, <<>>)
       ELSE WithClient(ContentfulClient(getenv(e, "CONTENTFUL_SPACE_ID", ""),
                                        getenv(e, "CONTENTFUL_ACCESS_TOKEN", "")))

\* contentful_client.py lines 552-570: the client takes its credentials
\* from the environment, and its ValueError passes to the caller
fetch_contentful_posts(e, content_type, outcome) ==
    LET WithClient(client) ==
            IF client.raised THEN [raised |-> TRUE, exc |-> client, posts |-> <<>>,
                                   calls |-> <<NewClient>>]
            ELSE [raised |-> FALSE, exc |-> client,
                  posts |-> fetch_blog_posts(outcome, client.val.s, content_type),
                  calls |-> <<NewClient, HttpPost(client.val.s)>>]
    IN WithClient(ContentfulClient(getenv(e, "CONTENTFUL_SPACE_ID", ""),
                                   getenv(e, "CONTENTFUL_ACCESS_TOKEN", "")))

\* main.py lines 62-74
_get_contentful_posts(e, outcome) ==
    LET Fetched(r) ==
            IF r.raised
            THEN ErrorResult("Error fetching from Contentful: ", r.exc, r.calls)
            ELSE ListResult(r.posts, r.calls)
    IN IF NotConfigured(e) THEN DictResult(NotConfiguredError, <<>>)
       ELSE Fetched(fetch_contentful_posts(e, getenv(e, "CONTENTFUL_CONTENT_TYPE",
                                                     "blogPost"), outcome))

\* main.py lines 13-15
_get_latest_posts(e, outcome) == _get_contentful_posts(e, outcome)

\* main.py lines 77-92
_search_blogs(e, query, outcome) ==
    LET WithClient(client) ==
            IF client.raised
            THEN ErrorResult("Error searching Contentful: ", client, <<NewClient>>)
            ELSE ListResult(search_blog_posts(outcome, client.val.s, query,
                                              getenv(e, "CONTENTFUL_CONTENT_TYPE",
                                                     "blogPost")),
                            <<NewClient, HttpPost(client.val.s)>>)
    IN IF NotConfigured(e) THEN DictResult(NotConfiguredError, <<>>)
       ELSE WithClient(ContentfulClient(getenv(e, "CONTENTFUL_SPACE_ID", ""),
                                        getenv(e, "CONTENTFUL_ACCESS_TOKEN", "")))

(***************************************************************************)
(* scraper.fetch_blog_posts and the index-based tools of the first main.py. *)
(***************************************************************************)
ScrapedUrl == "https://www.v2.ai/insights/adopting-AI-assistants-while-balancing-risks"

\* scraper.py lines 134-139: the list of the one Post, or the exception
\* that fetch_blog_post let through
scraper_fetch_blog_posts(outcome) ==
    LET ListOf(r) ==
            [raised |-> r.raised,
             posts |-> IF r.raised THEN <<>> ELSE <<r.val>>,
             exc |-> IF r.raised THEN r.val ELSE [exception |-> JStr("")],
             calls |-> r.steps]
    IN ListOf(fetch_blog_post(outcome, ScrapedUrl))

\* 0 <= index < len(posts)
InRange(index, n) == 0 <= index /\ index < n

\* an error that names the length of the list as its last index
InvalidIndex_CountsFromOne(n) ==
    [error |-> JStr("Invalid index. Available posts: 0 to " \o PyStr(JInt(n)))]

\* {"error": f"Invalid index. Available posts: 0 to {len(posts) - 1}"}
InvalidIndex(n) ==
    [error |-> JStr("Invalid index. Available posts: 0 to " \o PyStr(JInt(n - 1)))]

\* main.py lines 13-28
summarize_post(index, outcome, answer) ==
    LET Summed(post, calls, summary) ==
            [raised |-> FALSE,
             val |-> [title |-> post.title, date |-> post.date,
                      author |-> post.author, url |-> post.url,
                      summary |-> JStr(summary.val)],
             calls |-> calls \o <<SummarizeCall(post.content.s)>> \o summary.calls]
        At(post, calls) == Summed(post, calls, summarize(post.content.s, answer))
        With(fetched) ==
            IF fetched.raised
            THEN [raised |-> TRUE, val |-> fetched.exc, calls |-> fetched.calls]
            ELSE IF InRange(index, Len(fetched.posts))
            THEN At(fetched.posts[index + 1], fetched.calls)
            ELSE [raised |-> FALSE, val |-> InvalidIndex(Len(fetched.posts)),
                  calls |-> fetched.calls]
    IN With(scraper_fetch_blog_posts(outcome))

\* main.py lines 30-37
get_post_content(index, outcome) ==
    LET With(fetched) ==
            IF fetched.raised
            THEN [raised |-> TRUE, val |-> fetched.exc, calls |-> fetched.calls]
            ELSE IF InRange(index, Len(fetched.posts))
            THEN [raised |-> FALSE, val |-> fetched.posts[index + 1],
                  calls |-> fetched.calls]
            ELSE [raised |-> FALSE, val |-> InvalidIndex(Len(fetched.posts)),
                  calls |-> fetched.calls]
    IN With(scraper_fetch_blog_posts(outcome))

(***************************************************************************)
(* The inputs the operations are run on.                                   *)
(***************************************************************************)
SeqsUpTo(S, n) == UNION {[1..k -> S] : k \in 0..n}

\* rich text
RichDoc(nodes) == JDict([nodeType |-> JStr("document"), content |-> JList(nodes)])
Para(kids) == JDict([nodeType |-> JStr("paragraph"), content |-> JList(kids)])
TextNode(value) == JDict([nodeType |-> JStr("text"), value |-> JStr(value)])

Leaves == {TextNode("a"), TextNode("b")}
Nodes == Leaves \cup {Para(kids) : kids \in SeqsUpTo(Leaves, MaxKids)}
RichTexts == {RichDoc(nodes) : nodes \in SeqsUpTo(Nodes, MaxKids)}

\* nodes that hold no text: a text node without a value, a node that is
\* neither a text node nor a container, a container without children, and
\* values that are no node at all
OddNodes ==
    {JDict([nodeType |-> JStr("text")]), JDict([nodeType |-> JStr("hr")]),
     Para(<<>>), JList(<<>>), JNull, JInt(7)}
OddTexts ==
    {RichDoc(<<TextNode("a"), odd, TextNode("b")>>) : odd \in OddNodes}
    \cup {RichDoc(<<odd>>) : odd \in OddNodes}
    \cup {RichDoc(<<Para(<<TextNode("a"), odd>>), TextNode("b")>>) : odd \in OddNodes}

\* a text node under a chain of containers
MaxDepth == 4
RECURSIVE Nested(_)
Nested(depth) == IF depth = 0 THEN TextNode("a") ELSE Para(<<Nested(depth - 1)>>)
NestedTexts == {RichDoc(<<Nested(depth), TextNode("b")>>) : depth \in 0..MaxDepth}

\* the fields of an entry, each left out, null or with a value
TitleOpts ==
    << <<>>, << <<"title", JStr("Post A")>> >>, << <<"title", JStr("")>> >>,
       << <<"title", JNull>> >> >>
SlugOpts ==
    << <<>>, << <<"slug", JStr("post-a")>> >>, << <<"slug", JStr("")>> >>,
       << <<"slug", JNull>> >>, << <<"slug", JStr("post-b")>> >> >>
ContentOpts ==
    << <<>>,
       << <<"content", JNull>> >>,
       << <<"content", JDict([json |-> JNull])>> >>,
       << <<"content", JDict([json |-> RichDoc(<<Para(<<TextNode("Hello"),
                                                       TextNode("world")>>)>>)])>> >>,
       << <<"content", JDict([json |-> RichDoc(<<Para(<<>>)>>)])>> >>,
       << <<"content", JDict([json |-> RichDoc(<<Para(<<TextNode("An error budget")>>)>>)])>> >> >>
AuthorOpts ==
    << <<>>,
       << <<"author", JNull>> >>,
       << <<"author", JDict([name |-> JStr("Jane Smith")])>> >>,
       << <<"author", JDict([name |-> JStr("")])>> >>,
       << <<"author", JDict([fullName |-> JStr("Bob Johnson")])>> >>,
       << <<"author", JList(<<JDict([name |-> JStr("Bob Johnson")]),
                              JDict([name |-> JStr("Eve Late")])>>)>> >>,
       << <<"author", JStr("Direct Author")>> >> >>
DateOpts ==
    << <<>>,
       << <<"publishedDate", JStr("2024-01-01")>> >>,
       << <<"publishedDate", JNull>> >>,
       << <<"publishDate", JStr("2023-05-05")>>, <<"date", JStr("2022-02-02")>> >> >>
SysOpts ==
    << <<>>,
       << <<"sys", JNull>> >>,
       << <<"sys", JDict([id |-> JStr("e1")])>> >>,
       << <<"sys", JDict([id |-> JStr("e1"),
                          publishedAt |-> JStr("2024-01-02T00:00:00Z")])>> >> >>

Entry(t, s, c, a, d, y) ==
    JDict(DictOf(TitleOpts[t] \o SlugOpts[s] \o ContentOpts[c] \o AuthorOpts[a]
                 \o DateOpts[d] \o SysOpts[y]))

\* the entries that the modelled responses are made of
Items ==
    << Entry(2, 2, 4, 3, 2, 4),     \* every field set
       Entry(1, 1, 1, 1, 1, 1),     \* the empty field map
       JNull,                       \* a null in the list of items
       Entry(2, 2, 4, 6, 2, 4),     \* the author is a list
       Entry(2, 2, 2, 3, 2, 4),     \* the content is null
       Entry(2, 2, 6, 3, 2, 4),     \* the text holds the word "error"
       Entry(3, 3, 5, 4, 4, 3) >>   \* blank values

ItemLists ==
    {[i \in 1..Len(idx) |-> Items[idx[i]]] :
        idx \in SeqsUpTo(1..Len(Items), MaxItems)}

ContentTypes == {"blogPost", "pageBlogPost"}
Queries == {"", "AI"}
EntryIds == {"e1", "missing"}
ClientUrl == ContentfulClient("space", "token").val.s

GraphQLErrors == JList(<<JDict([message |-> JStr("Bad query")])>>)

\* what the GraphQL endpoint can come back with, whatever was asked
FailedPosts ==
    {NetExc("Connection refused"), NetExc("Read timed out"),
     HttpOther(404), HttpOther(500), HttpOther(200),
     HttpJson(200, JDict([errors |-> GraphQLErrors])),
     HttpJson(200, JDict([errors |-> JList(<<>>), data |-> EmptyDict])),
     HttpJson(200, JDict([data |-> JNull])),
     HttpJson(200, JNull),
     HttpJson(200, EmptyDict)}

\* a body with an "errors" key next to what it holds
WithErrors(body, errors) ==
    JDict([k \in DOMAIN body.d \cup {"errors"} |->
              IF k = "errors" THEN errors ELSE body.d[k]])
ErrorValues == {GraphQLErrors, JList(<<>>), JNull}

\* the answers to a collection query
CollectionBody(content_type, items) ==
    JDict([data |-> JDict(DictOf(<< <<content_type \o "Collection",
                                      JDict([items |-> items])>> >>))])
CollectionOutcomes(content_type) ==
    FailedPosts
    \cup {HttpJson(200, CollectionBody(content_type, JList(l))) : l \in ItemLists}
    \cup {HttpJson(300, CollectionBody(content_type, JList(<<Items[1]>>))),
          HttpJson(200, CollectionBody(content_type, JNull))}
    \cup {HttpJson(status,
                   WithErrors(CollectionBody(content_type, JList(<<Items[1]>>)), errors)) :
            status \in {200, 500}, errors \in ErrorValues}

\* the answers to a single-entry query
SingleBody(content_type, item) ==
    JDict([data |-> JDict(DictOf(<< <<content_type, item>> >>))])
SingleOutcomes(content_type) ==
    FailedPosts
    \cup {HttpJson(200, SingleBody(content_type, Items[i])) : i \in 1..Len(Items)}
    \cup {HttpJson(300, SingleBody(content_type, Items[1]))}
    \cup {HttpJson(status, WithErrors(SingleBody(content_type, Items[1]), errors)) :
            status \in {200, 500}, errors \in ErrorValues}

SumAnswers ==
    {SumOk("A short summary."), SumExc("Rate limit reached"),
     SumNoClient("The api_key client option must be set")}
Texts == {"", "Some text to summarize."}

Envs ==
    << DictOf(<<>>),
       DictOf(<< <<"CONTENTFUL_SPACE_ID", "space">> >>),
       DictOf(<< <<"CONTENTFUL_SPACE_ID", "space">>,
                 <<"CONTENTFUL_ACCESS_TOKEN", "">> >>),
       DictOf(<< <<"CONTENTFUL_SPACE_ID", "space">>,
                 <<"CONTENTFUL_ACCESS_TOKEN", "token">> >>),
       DictOf(<< <<"CONTENTFUL_SPACE_ID", "space">>,
                 <<"CONTENTFUL_ACCESS_TOKEN", "token">>,
                 <<"CONTENTFUL_CONTENT_TYPE", "pageBlogPost">> >>) >>

\* the pages
HeadParts ==
    << <<>>,
       <<El("div", <<El("h1", <<Txt("Test Blog Post Title")>>)>>)>>,
       <<El("div", <<El("h1", <<Txt("  ")>>)>>)>>,
       <<El("header", <<El("h1", <<Txt("Adopting AI")>>),
                        El("span", <<Txt("Ashley Rodan")>>),
                        El("span", <<Txt("July 15, 2024")>>)>>)>>,
       <<El("div", <<El("h1", <<Txt("Notes")>>),
                     El("span", <<Txt(" 2024-07-15, revised 3 August 2024")>>)>>)>>,
       <<El("div", <<El("h1", <<>>), Txt("Ashley RodanJuly 15, 2024")>>)>> >>
DateParts ==
    << <<>>,
       <<ElA("time", "2024-07-15T00:00:00Z", <<Txt("July 15")>>)>>,
       <<ElC("span", "date", <<Txt(" ")>>),
         ElC("div", "published", <<Txt("Jan 2024")>>)>>,
       <<El("footer", <<El("time", <<Txt("5 May 2023")>>)>>)>>,
       <<ElC("div", "published", <<Txt("Jan 2024")>>),
         El("time", <<Txt("5 May 2023")>>)>>,
       <<El("time", <<>>),
         ElA("span", "2024-01-01", <<Txt("New Year")>>),
         El("time", <<Txt("5 May 2023")>>)>>,
       <<ElA("time", "", <<Txt("May 2024")>>)>> >>
ContentParts ==
    << <<>>,
       <<El("main", <<El("p", <<Txt("First.")>>), El("p", <<>>),
                      El("p", <<Txt(" Second. ")>>)>>)>>,
       <<ElC("div", "content", <<El("p", <<Txt("From content.")>>)>>),
         El("article", <<El("p", <<Txt("From article.")>>)>>)>>,
       <<ElC("div", "content", <<El("p", <<Txt(" ")>>)>>),
         El("article", <<El("p", <<Txt("From article.")>>)>>)>>,
       <<El("p", <<Txt("Loose.")>>),
         El("nav", <<El("p", <<Txt("Menu")>>)>>)>>,
       <<El("script", <<Txt("var x;")>>), El("div", <<>>)>>,
       <<El("article", <<El("p", <<Txt("From article.")>>)>>),
         ElC("div", "content", <<El("p", <<Txt("From content.")>>)>>)>>,
       <<El("main", <<ElC("div", "content", <<El("p", <<Txt("From content.")>>)>>),
                      El("article", <<El("p", <<Txt("From article.")>>)>>)>>)>>,
       <<ElC("div", "content", <<>>),
         ElC("div", "content", <<El("p", <<Txt("From content.")>>)>>),
         El("article", <<El("p", <<Txt("From article.")>>)>>)>>,
       <<El("p", <<Txt("Intro.")>>),
         ElC("div", "content", <<El("p", <<Txt(" ")>>)>>),
         El("article", <<El("p", <<Txt("From article.")>>)>>)>>,
       <<El("p", <<Txt("First paragraph")>>), El("p", <<>>),
         El("div", <<El("p", <<Txt(" Third paragraph ")>>)>>)>>,
       <<El("div", <<El("p", <<Txt(" ")>>)>>)>>,
       <<El("main", <<El("nav", <<El("p", <<Txt("Menu")>>)>>),
                      El("p", <<Txt("Body."), El("script", <<Txt("var y;")>>)>>),
                      El("footer", <<El("p", <<Txt("Legal")>>)>>)>>),
         El("style", <<Txt("p {}")>>)>> >>

Page(h, d, c) == El("[document]", HeadParts[h] \o DateParts[d] \o ContentParts[c])

Urls == {"https://www.v2.ai/insights/adopting-AI-assistants-while-balancing-risks",
         "https://www.v2.ai/insights/other"}

GetOutcomes ==
    {GetExc("Connection refused"), GetExc("Read timed out")}
    \cup {GetHttp(status, Page(h, d, c)) :
            status \in {200, 300}, h \in 1..Len(HeadParts),
            d \in 1..Len(DateParts), c \in 1..Len(ContentParts)}
    \cup {GetHttp(status, Page(2, 2, 2)) : status \in {404, 500}}
    \cup {GetUnparsable(200, "ParserRejectedMarkup"),
          GetUnparsable(404, "ParserRejectedMarkup")}

\* the indices the tools are asked for, and what the GET of the one known
\* URL comes back with
MaxIndex == 5
Indices == (-2)..MaxIndex
IndexOutcomes ==
    {GetExc("Connection refused"), GetUnparsable(200, "ParserRejectedMarkup"),
     GetHttp(404, Page(2, 2, 2))}
    \cup {GetHttp(200, Page(h, 1, c)) : h \in {1, 4}, c \in {1, 2, 3}}

(***************************************************************************)
(* The operations.                                                         *)
(***************************************************************************)
Idle == call.op = "none"

\* what an operation returned: its Python type, the text of a str, and the
\* Posts of a list; a dict is held as the one Post of posts
RetNone == [type |-> "NoneType", text |-> "", posts |-> <<>>]
RetStr(s) == [type |-> "str", text |-> s, posts |-> <<>>]
RetDict(post) == [type |-> "dict", text |-> "", posts |-> <<post>>]
RetList(posts) == [type |-> "list", text |-> "", posts |-> posts]
RetRaised(exc) == [type |-> "exception", text |-> exc.exception.s, posts |-> <<>>]
Value(x) == IF IsNone(x) THEN RetNone ELSE RetDict(x)

Init ==
    /\ call = [op |-> "none"]
    /\ ret = RetNone
    /\ log = <<>>

\* scraper.fetch_blog_post(url)
FetchBlogPost ==
    /\ Idle
    /\ \E url \in Urls, outcome \in GetOutcomes :
        LET Done(r) ==
                /\ call' = [op |-> "fetch_blog_post", url |-> url, net |-> outcome]
                /\ ret' = IF r.raised THEN RetRaised(r.val) ELSE RetDict(r.val)
                /\ log' = r.steps
        IN Done(fetch_blog_post(outcome, url))

\* client._extract_content_from_json(content_json)
ExtractContentFromJson ==
    /\ Idle
    /\ \E content_json \in RichTexts \cup OddTexts \cup NestedTexts
                             \cup {EmptyDict, JNull, JStr("the content")} :
        /\ call' = [op |-> "_extract_content_from_json", arg |-> content_json]
        /\ ret' = RetStr(_extract_content_from_json(content_json))
        /\ log' = <<>>

\* client._extract_graphql_post_data(item)
ExtractGraphqlPostData ==
    /\ Idle
    /\ \E t \in 1..Len(TitleOpts), s \in 1..Len(SlugOpts), c \in 1..Len(ContentOpts),
       a \in 1..Len(AuthorOpts), d \in 1..Len(DateOpts), y \in 1..Len(SysOpts),
       isnull \in BOOLEAN :
        LET item == IF isnull THEN JNull ELSE Entry(t, s, c, a, d, y)
        IN /\ call' = [op |-> "_extract_graphql_post_data", arg |-> item]
           /\ ret' = Value(_extract_graphql_post_data(item))
           /\ log' = <<>>
   
\* client.fetch_blog_posts(content_type)
FetchBlogPosts ==
    /\ Idle
    /\ \E ct \in ContentTypes : \E outcome \in CollectionOutcomes(ct) :
        /\ call' = [op |-> "fetch_blog_posts", content_type |-> ct, query |-> "",
                    net |-> outcome]
        /\ ret' = RetList(fetch_blog_posts(outcome, ClientUrl, ct))
        /\ log' = <<HttpPost(ClientUrl)>>

\* client.search_blog_posts(query, content_type)
SearchBlogPosts ==
    /\ Idle
    /\ \E ct \in ContentTypes, query \in Queries : \E outcome \in CollectionOutcomes(ct) :
        /\ call' = [op |-> "search_blog_posts", content_type |-> ct,
                    query |-> query, net |-> outcome]
        /\ ret' = RetList(search_blog_posts(outcome, ClientUrl, query, ct))
        /\ log' = <<HttpPost(ClientUrl)>>

\* client.advanced_search_blog_posts(query, content_type)
AdvancedSearchBlogPosts ==
    /\ Idle
    /\ \E ct \in ContentTypes, query \in Queries : \E outcome \in CollectionOutcomes(ct) :
        /\ call' = [op |-> "advanced_search_blog_posts", content_type |-> ct,
                    query |-> query, net |-> outcome]
        /\ ret' = RetList(advanced_search_blog_posts(outcome, ClientUrl, query, ct))
        /\ log' = <<HttpPost(ClientUrl)>>

\* client.fetch_single_post(entry_id, content_type)
FetchSinglePost ==
    /\ Idle
    /\ \E ct \in ContentTypes, entry_id \in EntryIds : \E outcome \in SingleOutcomes(ct) :
        /\ call' = [op |-> "fetch_single_post", content_type |-> ct,
                    entry_id |-> entry_id, net |-> outcome]
        /\ ret' = RetDict(fetch_single_post(outcome, ClientUrl, entry_id, ct))
        /\ log' = <<HttpPost(ClientUrl)>>

\* main._summarize_post(post_id)
SummarizePost ==
    /\ Idle
    /\ \E e \in 1..Len(Envs), post_id \in EntryIds, answer \in SumAnswers :
         \E outcome \in SingleOutcomes(getenv(Envs[e], "CONTENTFUL_CONTENT_TYPE",
                                              "blogPost")) :
           LET Done(r) ==
                   /\ call' = [op |-> "_summarize_post", env |-> Envs[e],
                               post_id |-> post_id, net |-> outcome,
                               answer |-> answer]
                   /\ ret' = RetDict(r.val)
                   /\ log' = r.calls
           IN Done(_summarize_post(Envs[e], post_id, outcome, answer))

\* summarizer.summarize(text)
Summarize ==
    /\ Idle
    /\ \E text \in Texts, answer \in SumAnswers :
        LET Done(r) ==
                /\ call' = [op |-> "summarize", text |-> text, answer |-> answer]
                /\ ret' = RetStr(r.val)
                /\ log' = r.calls
        IN Done(summarize(text, answer))

\* what a tool of main.py returned
Result(r) == IF r.list THEN RetList(r.posts) ELSE RetDict(r.val)

\* main._get_post_content(post_id)
GetPostContent ==
    /\ Idle
    /\ \E e \in 1..Len(Envs), post_id \in EntryIds :
         \E outcome \in SingleOutcomes(getenv(Envs[e], "CONTENTFUL_CONTENT_TYPE",
                                              "blogPost")) :
           LET Done(r) ==
                   /\ call' = [op |-> "_get_post_content", env |-> Envs[e],
                               post_id |-> post_id, net |-> outcome]
                   /\ ret' = Result(r)
                   /\ log' = r.calls
           IN Done(_get_post_content(Envs[e], post_id, outcome))

\* main._get_contentful_posts(limit)
GetContentfulPosts ==
    /\ Idle
    /\ \E e \in 1..Len(Envs) :
         \E outcome \in CollectionOutcomes(getenv(Envs[e], "CONTENTFUL_CONTENT_TYPE",
                                                  "blogPost")) :
           LET Done(r) ==
                   /\ call' = [op |-> "_get_contentful_posts", env |-> Envs[e],
                               net |-> outcome]
                   /\ ret' = Result(r)
                   /\ log' = r.calls
           IN Done(_get_contentful_posts(Envs[e], outcome))

\* main._get_latest_posts(limit)
GetLatestPosts ==
    /\ Idle
    /\ \E e \in 1..Len(Envs) :
         \E outcome \in CollectionOutcomes(getenv(Envs[e], "CONTENTFUL_CONTENT_TYPE",
                                                  "blogPost")) :
           LET Done(r) ==
                   /\ call' = [op |-> "_get_latest_posts", env |-> Envs[e],
                               net |-> outcome]
                   /\ ret' = Result(r)
                   /\ log' = r.calls
           IN Done(_get_latest_posts(Envs[e], outcome))

\* main._search_blogs(query, limit)
SearchBlogs ==
    /\ Idle
    /\ \E e \in 1..Len(Envs), query \in Queries :
         \E outcome \in CollectionOutcomes(getenv(Envs[e], "CONTENTFUL_CONTENT_TYPE",
                                                  "blogPost")) :
           LET Done(r) ==
                   /\ call' = [op |-> "_search_blogs", env |-> Envs[e],
                               query |-> query, net |-> outcome]
                   /\ ret' = Result(r)
                   /\ log' = r.calls
           IN Done(_search_blogs(Envs[e], query, outcome))

\* summarize_post(index) of the first main.py
SummarizePostAt ==
    /\ Idle
    /\ \E index \in Indices, outcome \in IndexOutcomes, answer \in SumAnswers :
        LET Done(r) ==
                /\ call' = [op |-> "summarize_post", index |-> index,
                            net |-> outcome, answer |-> answer]
                /\ ret' = IF r.raised THEN RetRaised(r.val) ELSE RetDict(r.val)
                /\ log' = r.calls
        IN Done(summarize_post(index, outcome, answer))

\* get_post_content(index) of the first main.py
GetPostContentAt ==
    /\ Idle
    /\ \E index \in Indices, outcome \in IndexOutcomes :
        LET Done(r) ==
                /\ call' = [op |-> "get_post_content", index |-> index,
                            net |-> outcome]
                /\ ret' = IF r.raised THEN RetRaised(r.val) ELSE RetDict(r.val)
                /\ log' = r.calls
        IN Done(get_post_content(index, outcome))

\* the caller has the result; the server is idle again
Return ==
    /\ ~Idle
    /\ call' = [op |-> "none"]
    /\ ret' = RetNone
    /\ log' = <<>>

Next ==
    \/ FetchBlogPost
    \/ ExtractContentFromJson
    \/ ExtractGraphqlPostData
    \/ FetchBlogPosts
    \/ SearchBlogPosts
    \/ AdvancedSearchBlogPosts
    \/ FetchSinglePost
    \/ SummarizePost
    \/ Summarize
    \/ SummarizePostAt
    \/ GetPostContentAt
    \/ GetPostContent
    \/ GetContentfulPosts
    \/ GetLatestPosts
    \/ SearchBlogs
    \/ Return

Spec == Init /\ [][Next]_vars

(***************************************************************************)
(* The properties.  Each is about the state an operation leaves: call      *)
(* holds its inputs, ret what it returned, log what it did on the way.     *)
(***************************************************************************)
ScrapedFields == {"title", "date", "author", "content", "url"}
CmsFields == ScrapedFields \cup {"id"}
CollectionOps == {"fetch_blog_posts", "search_blog_posts", "advanced_search_blog_posts"}

\* the record that the operation returned
RetPost == ret.posts[1]

\* in a state of _summarize_post: the Post that its fetch_single_post returned
FetchedPost ==
    fetch_single_post(call.net, ClientUrl, call.post_id,
                      getenv(call.env, "CONTENTFUL_CONTENT_TYPE", "blogPost"))

\* the records of fetch_single_post's four non-success paths
IsSingleErrorMarker(p) ==
    /\ p.title \in {JStr("Error fetching post"), JStr("Post not found")}
    /\ p.date = JStr("") /\ p.author = JStr("") /\ p.url = JStr("")

SummarizerCalled == \E i \in 1..Len(log) : log[i].what = "summarize"

\* C1: in _summarize_post, every error-marker record that fetch_single_post
\* returns is returned unchanged and the summarizer is never invoked
C1_ErrorMarkerNeverSummarized ==
    (/\ call.op = "_summarize_post"
     /\ ~NotConfigured(call.env)
     /\ IsSingleErrorMarker(FetchedPost))
    => (RetPost = FetchedPost /\ ~SummarizerCalled)

\* the GET failed: an exception of requests, or a status outside 200..299
GetFailedNon2xx ==
    /\ call.op = "fetch_blog_post"
    /\ (call.net.kind = "exc" \/ call.net.status < 200 \/ call.net.status > 299)

\* the GET failed: an exception of requests, or a status in 400..599
GetFailed4xx5xx ==
    /\ call.op = "fetch_blog_post"
    /\ \/ call.net.kind = "exc"
       \/ (call.net.status >= 400 /\ call.net.status <= 599)

\* the stringified error of the failed request
UpstreamError(url) ==
    IF call.net.kind = "exc" THEN call.net.msg
    ELSE HTTPErrorMessage(call.net.status, url)

RequestErrorShape ==
    /\ RetPost = [title |-> JStr("Error fetching post"),
                  content |-> JStr("Error: " \o UpstreamError(call.url)),
                  url |-> JStr(call.url), date |-> JStr(""), author |-> JStr("")]
    /\ \A i \in 1..Len(log) : log[i].what \notin {"parse", "title", "date", "content"}

\* C2 as stated: when the GET fails with a network error, a timeout or a
\* non-2xx status, fetch_blog_post returns the error Post of the requested
\* URL and runs no extraction step
C2_Non2xxGivesErrorPost == GetFailedNon2xx => RequestErrorShape

\* C2 as amended: when the GET fails with a network error, a timeout or a
\* 4xx or 5xx status, fetch_blog_post returns the error Post of the
\* requested URL and runs no extraction step
C2_RequestErrorGivesErrorPost == GetFailed4xx5xx => RequestErrorShape

C2_Witness ==
    /\ call.op = "fetch_blog_post"
    /\ call.net.kind = "http" /\ call.net.status = 404
    /\ RetPost.title = JStr("Error fetching post")
    /\ Len(log) = 1

\* C3: every record of fetch_blog_post has exactly the fields title, date,
\* author, content and url, and every record of the CMS operations has
\* those five and id, on the success and on the error paths
C3_RecordsAreComplete ==
    /\ (call.op = "fetch_blog_post" /\ ret.type # "exception")
        => (Len(ret.posts) = 1 /\ DOMAIN RetPost = ScrapedFields)
    /\ call.op = "fetch_single_post"
        => (Len(ret.posts) = 1 /\ DOMAIN RetPost = CmsFields)
    /\ call.op \in CollectionOps
        => \A i \in 1..Len(ret.posts) : DOMAIN ret.posts[i] = CmsFields

C3_Witness ==
    /\ call.op = "fetch_single_post"
    /\ call.net.kind = "exc"
    /\ RetPost.title = JStr("Error fetching post")
    /\ RetPost.id = JStr(call.entry_id)

\* extraction succeeded: the page was fetched, or the entry gave a Post
ExtractionSucceeded ==
    \/ (call.op = "fetch_blog_post" /\ call.net.kind = "http"
        /\ call.net.status >= 200 /\ call.net.status <= 299)
    \/ (call.op = "_extract_graphql_post_data" /\ ret.type = "dict")

\* C4: when extraction succeeds, none of title, date, author and content is
\* the empty string
C4_NoEmptyField ==
    ExtractionSucceeded
    => \A f \in {"title", "date", "author", "content"} : RetPost[f] # JStr("")

\* C5: extraction of the empty field map returns a Post with title
\* "No title", content "No content", author "Unknown Author" and url ""
C5_EmptyFieldMap ==
    (call.op = "_extract_graphql_post_data" /\ call.arg = EmptyDict)
    => /\ ret.type = "dict"
       /\ RetPost.title = JStr("No title")
       /\ RetPost.content = JStr("No content")
       /\ RetPost.author = JStr("Unknown Author")
       /\ RetPost.url = JStr("")

\* the values of the text nodes of a rich-text tree, in document order
RECURSIVE TextValues(_)
TextValues(node) ==
    IF node.t = "list"
    THEN Flatten([i \in 1..Len(node.l) |-> TextValues(node.l[i])])
    ELSE IF node.t = "dict" /\ Get(node, "nodeType", JNull) = JStr("text")
    THEN <<Get(node, "value", JStr("")).s>>
    ELSE IF node.t = "dict" /\ HasKey(node, "content")
    THEN TextValues(node.d["content"])
    ELSE <<>>

\* the same, with one empty value for every container without children
RECURSIVE LeafValues(_)
LeafValues(node) ==
    IF node.t = "list"
    THEN IF Len(node.l) = 0 THEN <<"">>
         ELSE Flatten([i \in 1..Len(node.l) |-> LeafValues(node.l[i])])
    ELSE IF node.t = "dict" /\ Get(node, "nodeType", JNull) = JStr("text")
    THEN <<Get(node, "value", JStr("")).s>>
    ELSE IF node.t = "dict" /\ HasKey(node, "content")
    THEN LeafValues(node.d["content"])
    ELSE <<"">>

\* text extraction ran on a rich-text document
ExtractedRichText ==
    /\ call.op = "_extract_content_from_json"
    /\ call.arg \in RichTexts

\* C6 as stated: text extraction returns the values of all text nodes, in
\* document order, joined by single spaces; a container without text adds
\* nothing, no separator either
C6_JoinOfTextValues ==
    ExtractedRichText
    => ret.text = Join(TextValues(call.arg.d["content"]), " ")

\* C6 as amended: text extraction returns the values of all text nodes, in
\* document order, joined by single spaces, where a container without
\* children counts as one empty value and so adds a separator
C6_JoinOfLeafValues ==
    ExtractedRichText
    => ret.text = Join(LeafValues(call.arg.d["content"]), " ")

C6_Witness ==
    /\ ExtractedRichText
    /\ call.arg = RichDoc(<<Para(<<>>), Para(<<TextNode("a"), TextNode("b")>>)>>)
    /\ ret.text = " a b"

\* the value of the entry's author field
AuthorValue == Get(call.arg, "author", JNull)

\* the entry without its author field
WithoutAuthor(item) == JDict([k \in DOMAIN item.d \ {"author"} |-> item.d[k]])

\* C7: for an entry whose author is a non-empty list and whose other fields
\* extract, the entry is extracted and its author is the name of the first
\* element of the list, or "Unknown Author" when that element gives no name
C7_FirstAuthorOfList ==
    (/\ call.op = "_extract_graphql_post_data"
     /\ call.arg.t = "dict"
     /\ AuthorValue.t = "list" /\ Len(AuthorValue.l) > 0
     /\ ~IsNone(_extract_graphql_post_data(WithoutAuthor(call.arg))))
    => /\ ret.type = "dict"
       /\ RetPost.author =
            IF AuthorValue.l[1].t = "dict" /\ HasKey(AuthorValue.l[1], "name")
            THEN AuthorValue.l[1].d["name"]
            ELSE JStr("Unknown Author")

\* C8: for an entry that has a publishDate and a date field, the Post's date
\* is the value of publishDate
C8_PublishDateBeforeDate ==
    (/\ call.op = "_extract_graphql_post_data"
     /\ call.arg.t = "dict"
     /\ HasKey(call.arg, "publishDate") /\ HasKey(call.arg, "date")
     /\ ret.type = "dict")
    => RetPost.date = JStr(PyStr(call.arg.d["publishDate"]))

\* the response holds a list of items
HasItemList ==
    /\ call.op \in CollectionOps
    /\ call.net.kind = "http" /\ call.net.status = 200 /\ call.net.isjson
    /\ call.net.json.t = "dict" /\ ~HasKey(call.net.json, "errors")
    /\ ~ItemsOf(call.net.json, call.content_type).raised
    /\ ItemsOf(call.net.json, call.content_type).val.t = "list"

ResponseItems == ItemsOf(call.net.json, call.content_type).val.l

\* the items that single-entry extraction gives a Post for, in their order
ExtractedItems ==
    SelectSeq(ResponseItems, LAMBDA item : ~IsNone(_extract_graphql_post_data(item)))

\* C9: the collection operations return the Posts of exactly the items whose
\* extraction succeeds, in the order of the items; an item whose extraction
\* fails is left out and changes nothing else
C9_FailedItemsAreSkipped ==
    HasItemList
    => ret.posts = [i \in 1..Len(ExtractedItems) |->
                        _extract_graphql_post_data(ExtractedItems[i])]

C9_Witness ==
    /\ HasItemList
    /\ Len(ResponseItems) = 2
    /\ IsNone(_extract_graphql_post_data(ResponseItems[1]))
    /\ ~IsNone(_extract_graphql_post_data(ResponseItems[2]))
    /\ Len(ret.posts) = 1
    /\ ret.posts[1].title = JStr("Post A")

\* the response carries a non-empty list of errors
HasErrorList ==
    /\ call.net.kind = "http" /\ call.net.isjson
    /\ call.net.json.t = "dict" /\ HasKey(call.net.json, "errors")
    /\ call.net.json.d["errors"].t = "list"
    /\ Len(call.net.json.d["errors"].l) > 0

\* the message of the failed query
UpstreamMessage ==
    IF call.net.kind = "exc" THEN call.net.msg
    ELSE IF HasErrorList /\ call.net.status < 400
    THEN PyStr(call.net.json.d["errors"])
    ELSE HTTPErrorMessage(call.net.status, ClientUrl)

\* one error-marker record that carries the upstream message
OneErrorMarker ==
    /\ Len(ret.posts) = 1
    /\ RetPost.date = JStr("") /\ RetPost.author = JStr("")
    /\ RetPost.url = JStr("") /\ RetPost.id = JStr("")
    /\ RetPost.content.t = "str"
    /\ Contains(RetPost.content.s, UpstreamMessage)

\* C10 as stated: a transport error, a non-2xx status or a non-empty error
\* list makes a collection operation return one error-marker record with
\* empty date, author, url and id and the upstream message in its content
C10_Non2xxGivesErrorList ==
    (/\ call.op \in CollectionOps
     /\ \/ call.net.kind = "exc"
        \/ call.net.status < 200 \/ call.net.status > 299
        \/ HasErrorList)
    => OneErrorMarker

\* C10 as amended: a transport error, a 4xx or 5xx status or a non-empty
\* error list makes a collection operation return one error-marker record
\* with empty date, author, url and id and the upstream message in its
\* content
C10_QueryFailureGivesErrorList ==
    (/\ call.op \in CollectionOps
     /\ \/ call.net.kind = "exc"
        \/ (call.net.status >= 400 /\ call.net.status <= 599)
        \/ HasErrorList)
    => OneErrorMarker

C10_Witness ==
    /\ call.op = "search_blog_posts"
    /\ call.query = "AI"
    /\ call.net.status = 200 /\ HasErrorList
    /\ ret.posts = SearchError("Error searching Contentful for 'AI'",
                               "Search error: [{'message': 'Bad query'}]")

\* the cause of the summarizer's failure, as summarize reports it
SummaryError == "Error generating summary: " \o call.answer.text

\* the view of a Post that _summarize_post returns
SummaryView(post, summary) ==
    [title |-> post.title, date |-> post.date, author |-> post.author,
     url |-> post.url, summary |-> JStr(summary)]

\* C11: when the call to the summarization collaborator fails with cause c,
\* summarize returns "Error generating summary: " followed by c, and
\* _summarize_post returns the title, date, author, url, summary view of
\* the fetched Post with that string as summary
C11_SummarizerFailureIsSurfaced ==
    /\ (call.op = "summarize" /\ call.answer.kind = "exc")
        => ret = RetStr(SummaryError)
    /\ (call.op = "_summarize_post" /\ SummarizerCalled /\ call.answer.kind = "exc")
        => (ret.type = "dict" /\ RetPost = SummaryView(FetchedPost, SummaryError))

C11_Witness ==
    /\ call.op = "_summarize_post"
    /\ SummarizerCalled
    /\ call.answer = SumExc("Rate limit reached")
    /\ RetPost.summary = JStr("Error generating summary: Rate limit reached")
    /\ RetPost.title = JStr("Post A")

\* the arguments of the calls of a function that the log holds, in order
CallsOf(what) ==
    LET Picked(entries) == [i \in 1..Len(entries) |-> entries[i].arg]
    IN Picked(SelectSeq(log, LAMBDA entry : entry.what = what))

\* the position of the first call of a function in the log, 0 if none
FirstCall(what) ==
    IF \E i \in 1..Len(log) : log[i].what = what
    THEN CHOOSE i \in 1..Len(log) :
            log[i].what = what /\ \A j \in 1..(i - 1) : log[j].what # what
    ELSE 0

\* C12: in _summarize_post with Contentful configured and a fetched Post
\* that is no error marker, fetch_single_post is called once with the post
\* id, then summarize once with the Post's content, and the result is the
\* title, date, author and url of the Post with summarize's return value
C12_FetchThenSummarize ==
    LET Holds(post) ==
            /\ CallsOf("fetch_single_post") = <<call.post_id>>
            /\ CallsOf("summarize") = <<post.content.s>>
            /\ FirstCall("fetch_single_post") < FirstCall("summarize")
            /\ RetPost = SummaryView(post, summarize(post.content.s, call.answer).val)
            /\ DOMAIN RetPost = {"title", "date", "author", "url", "summary"}
    IN (/\ call.op = "_summarize_post"
        /\ ~NotConfigured(call.env)
        /\ ~IsSingleErrorMarker(FetchedPost))
       => Holds(FetchedPost)

IndexTools == {"summarize_post", "get_post_content"}

\* in a state of an index-based tool: the list that fetch_blog_posts gave it
ScrapedPosts == scraper_fetch_blog_posts(call.net)

\* what an index-based tool owes for an index of a list of Posts
IndexAnswer(posts) ==
    IF 0 <= call.index /\ call.index < Len(posts)
    THEN IF call.op = "get_post_content"
         THEN RetPost = posts[call.index + 1]
         ELSE /\ RetPost = SummaryView(posts[call.index + 1],
                                       summarize(posts[call.index + 1].content.s,
                                                 call.answer).val)
              /\ CallsOf("summarize") = <<posts[call.index + 1].content.s>>
    ELSE /\ RetPost = [error |-> JStr("Invalid index. Available posts: 0 to "
                                      \o ToString(Len(posts) - 1))]
         /\ ~SummarizerCalled

\* C13: over a list of n Posts, summarize_post(index) and
\* get_post_content(index) return the error "Invalid index. Available posts:
\* 0 to <n-1>" for every index outside 0..n-1, negative ones included,
\* without invoking the summarizer, and return or summarize posts[index]
\* for every index inside; index 5 of a list of one gives "... 0 to 0"
C13_IndexIsChecked ==
    LET Holds(fetched) ==
            /\ ret.type = "dict"
            /\ IndexAnswer(fetched.posts)
            /\ (call.index = 5 /\ Len(fetched.posts) = 1)
                => RetPost = [error |-> JStr("Invalid index. Available posts: 0 to 0")]
        ListGiven(fetched) == ~fetched.raised => Holds(fetched)
    IN call.op \in IndexTools => ListGiven(ScrapedPosts)

C13_Witness ==
    /\ call.op = "summarize_post"
    /\ call.index = 5
    /\ call.net.kind = "http" /\ call.net.status = 200
    /\ RetPost = [error |-> JStr("Invalid index. Available posts: 0 to 0")]
    /\ CallsOf("GET") = <<ScrapedUrl>>

\* fetch_blog_post got a page and scraped it
PageScraped ==
    /\ call.op = "fetch_blog_post"
    /\ call.net.kind = "http"
    /\ ret.type = "dict"
    /\ RetPost.title # JStr("Error fetching post")

\* the elements of a document that a selector matches and that hold paragraphs
WithParagraphs(soup, selector) ==
    SelectSeq(FindAll(soup, selector), LAMBDA e : Len(FindAll(e.node, "p")) > 0)

\* the text of the paragraphs of the first of some elements
ParagraphsOfFirst(elements) == ParagraphText(FindAll(elements[1].node, "p"))

\* C14 as stated: when the document has a .content element and an article
\* element that each contain paragraphs, the content is the text of the
\* .content element's paragraphs only
C14_ContentClassBeforeArticle ==
    (/\ PageScraped
     /\ Len(WithParagraphs(call.net.doc, ".content")) > 0
     /\ Len(WithParagraphs(call.net.doc, "article")) > 0)
    => RetPost.content
         = JStr(ParagraphsOfFirst(WithParagraphs(call.net.doc, ".content")))

\* the document as the content step sees it
StrippedPage == Decompose(call.net.doc, {"script", "style", "nav", "header", "footer"})

\* the first main element, if there is one, holds no paragraph
NoMainWithParagraphs(soup) ==
    LET None(mains) == Len(mains) = 0 \/ Len(FindAll(mains[1].node, "p")) = 0
    IN None(FindAll(soup, "main"))

\* the first .content element holds a paragraph with text
FirstContentHasText(soup) ==
    LET Has(elements) == Len(elements) > 0 /\ ParagraphsOfFirst(elements) # ""
    IN Has(FindAll(soup, ".content"))

\* C14 as amended: when the document left after the removal of script,
\* style, nav, header and footer has a .content element and an article
\* element that each contain paragraphs, its first main element (if any)
\* holds no paragraph and its first .content element holds a paragraph
\* with text, the content is the text of that element's paragraphs only
C14_FirstContentClassBeforeArticle ==
    LET Holds(soup) ==
            (/\ Len(WithParagraphs(soup, "article")) > 0
             /\ NoMainWithParagraphs(soup)
             /\ FirstContentHasText(soup))
            => RetPost.content = JStr(ParagraphsOfFirst(FindAll(soup, ".content")))
    IN PageScraped => Holds(StrippedPage)

\* the article comes first in the document and the .content element wins
C14_Witness ==
    /\ PageScraped
    /\ call.net.doc = Page(2, 1, 7)
    /\ FindAll(call.net.doc, "article")[1].node = Page(2, 1, 7).kids[2]
    /\ FindAll(call.net.doc, ".content")[1].node = Page(2, 1, 7).kids[3]
    /\ RetPost.content = JStr("From content.")

\* the page has a heading
HasHeading == PageScraped /\ Len(FindAll(call.net.doc, "h1")) > 0

\* the text of the container of the page's heading
HeadingText == get_text(FindAll(call.net.doc, "h1")[1].parent)

\* the first match of each pattern that matches in a text, with the
\* pattern's place in the priority order
PatternMatches(text) ==
    {m \in {[k |-> k, match |-> re_search(date_patterns[k], text)] :
               k \in 1..Len(date_patterns)} : m.match.found}

\* the match of the pattern of the highest priority
Preferred(matches) == CHOOSE m \in matches : \A o \in matches : m.k <= o.k

\* s ends with suffix
EndsWith(s, suffix) ==
    /\ Len(suffix) <= Len(s)
    /\ SubSeq(s, Len(s) - Len(suffix) + 1, Len(s)) = suffix

\* C15: the date of the heading container is the first match of the
\* pattern of the highest priority that matches anywhere in the text, also
\* when a pattern of lower priority matches earlier in the text; a match
\* that holds the author name gives what follows the name
C15_PatternPriorityNotPosition ==
    LET IsDate(match) ==
            IF Contains(match.text, "Rodan")
            THEN EndsWith(match.text, RetPost.date.s) /\ RetPost.date.s # ""
            ELSE RetPost.date = JStr(match.text)
        Holds(matches) == matches # {} => IsDate(Preferred(matches).match)
    IN HasHeading => Holds(PatternMatches(HeadingText))

\* "DD Month YYYY" wins over the "YYYY-MM-DD" that stands before it
C15_Witness ==
    /\ HasHeading
    /\ HeadingText = "Notes 2024-07-15, revised 3 August 2024"
    /\ re_search(date_patterns[4], HeadingText).found
    /\ re_search(date_patterns[4], HeadingText).start
         < re_search(date_patterns[2], HeadingText).start
    /\ RetPost.date = JStr("3 August 2024")

\* s with everything up to and including some occurrence of the name, and
\* the whitespace after it, removed
AfterName(s, name) ==
    {LStrip(SubSeq(s, i + Len(name), Len(s))) :
        i \in {j \in 1..(Len(s) - Len(name) + 1) :
                    SubSeq(s, j, j + Len(name) - 1) = name}}

\* C16: when the date substring matched in the heading container holds the
\* author name, everything up to and including the name is removed and the
\* date does not hold the name; "Ashley RodanJuly 15, 2024" gives
\* "July 15, 2024"
C16_AuthorNameStripped ==
    LET Stripped(match) ==
            Contains(match.text, "Rodan")
            => (/\ ~Contains(RetPost.date.s, "Rodan")
                /\ RetPost.date.s \in AfterName(match.text, "Rodan"))
        Holds(matches) == matches # {} => Stripped(Preferred(matches).match)
    IN /\ HasHeading => Holds(PatternMatches(HeadingText))
       /\ (HasHeading /\ HeadingText = "Ashley RodanJuly 15, 2024")
           => RetPost.date = JStr("July 15, 2024")

C16_Witness ==
    /\ HasHeading
    /\ HeadingText = "Ashley RodanJuly 15, 2024"
    /\ re_search(date_patterns[1], HeadingText).text = "RodanJuly 15, 2024"
    /\ RetPost.date = JStr("July 15, 2024")

\* the outbound calls of an operation: requests.get, requests.post and the
\* chat completion, in the order they were made
Requests == SelectSeq(log, LAMBDA entry : entry.what \in {"GET", "POST"})

NetworkOps ==
    {"fetch_blog_post", "fetch_blog_posts", "fetch_single_post",
     "search_blog_posts", "advanced_search_blog_posts", "summarize"}

\* C17 as stated: every invocation of fetch_blog_post, fetch_blog_posts,
\* fetch_single_post, search_blog_posts, advanced_search_blog_posts and
\* summarize makes exactly one outbound request, on the success and on the
\* failure paths
C17_ExactlyOneRequest == call.op \in NetworkOps => Len(Requests) = 1

\* C17 as amended: the five fetch and search operations make exactly one
\* outbound request on every path; summarize makes exactly one unless the
\* OpenAI client cannot be constructed, and then none; nothing is retried
C17_OneRequestOnceThereIsAClient ==
    /\ (call.op \in NetworkOps \ {"summarize"}) => Len(Requests) = 1
    /\ call.op = "summarize"
        => Len(Requests) = (IF call.answer.sent THEN 1 ELSE 0)

C17_Witness ==
    /\ call.op = "summarize"
    /\ call.answer = SumNoClient("The api_key client option must be set")
    /\ ret = RetStr("Error generating summary: The api_key client option must be set")
    /\ Requests = <<>>

\* C18: fetch_blog_post never lets an exception through to its caller:
\* every failure of the fetch or of the parse gives an error Post of the
\* five fields, so the index-based tools return a record or an error value
C18_NoExceptionPropagates ==
    /\ call.op = "fetch_blog_post"
        => (ret.type = "dict" /\ DOMAIN RetPost = ScrapedFields)
    /\ call.op \in IndexTools => ret.type = "dict"

ConfigGuardedOps ==
    {"_summarize_post", "_get_post_content", "_get_contentful_posts",
     "_get_latest_posts", "_search_blogs"}

\* an environment variable is unset or empty
Unset(env, key) == key \notin DOMAIN env \/ env[key] = ""

\* C20: when CONTENTFUL_SPACE_ID or CONTENTFUL_ACCESS_TOKEN is unset or
\* empty, _summarize_post, _get_post_content, _get_contentful_posts,
\* _get_latest_posts and _search_blogs return the error "Contentful not
\* configured. ..." without constructing a client, sending a request or
\* invoking the summarizer
C20_NotConfiguredShortCircuits ==
    (/\ call.op \in ConfigGuardedOps
     /\ \/ Unset(call.env, "CONTENTFUL_SPACE_ID")
        \/ Unset(call.env, "CONTENTFUL_ACCESS_TOKEN"))
    => (/\ ret = RetDict([error |-> JStr("Contentful not configured. Set "
                                         \o "CONTENTFUL_SPACE_ID and CONTENTFUL_ACCESS_TOKEN "
                                         \o "environment variables.")])
        /\ log = <<>>)

\* the space id is set, the token is empty, the answer would have held Posts
C20_Witness ==
    /\ call.op = "_search_blogs"
    /\ ~Unset(call.env, "CONTENTFUL_SPACE_ID")
    /\ "CONTENTFUL_ACCESS_TOKEN" \in DOMAIN call.env
    /\ call.env["CONTENTFUL_ACCESS_TOKEN"] = ""
    /\ call.net.kind = "http" /\ call.net.status = 200 /\ call.net.isjson
    /\ DOMAIN RetPost = {"error"}
    /\ log = <<>>

(***************************************************************************)
(* C21: the url of a CMS Post is "https://v2.ai/insights/" followed by    *)
(* the entry's slug when the entry has a non-empty slug, and the empty     *)
(* string when the entry has no slug or an empty one (a null slug counts   *)
(* as none); no other field of the entry has a part in it.                 *)
(***************************************************************************)
\* the slug the entry holds, "" when it holds none
SlugOfEntry(item) ==
    IF HasKey(item, "slug") /\ Get(item, "slug", JNull).t = "str"
    THEN Get(item, "slug", JNull).s ELSE ""

ExtractedPost == call.op = "_extract_graphql_post_data" /\ ret.type = "dict"

SelectorsWithText(soup) ==
    {k \in 1..Len(content_selectors) :
        LET Has(elements) == Len(elements) > 0 /\ ParagraphsOfFirst(elements) # ""
        IN Has(FindAll(soup, content_selectors[k]))}

FirstOf(places) == CHOOSE k \in places : \A o \in places : k <= o

C22_EmptyParagraphsDoNotWin ==
    LET Holds(soup, places) ==
            places # {} =>
                RetPost.content
                  = JStr(ParagraphsOfFirst(FindAll(soup, content_selectors[FirstOf(places)])))
    IN PageScraped => Holds(StrippedPage, SelectorsWithText(StrippedPage))

(***************************************************************************)
(* C23: when no date pattern matches in the heading's container, or the   *)
(* page has no level-1 heading, the date is that of the first selector in  *)
(* the order time, [datetime], .date, .published, .post-date, .meta-date,  *)
(* .publish-date whose first element yields a non-empty value, its         *)
(* datetime attribute before its text; when none does the date is          *)
(* "Date not found"; when a pattern matched, the date is the match and no  *)
(* selector has a part in it.                                              *)
(***************************************************************************)
\* the value an element yields: its datetime attribute, else its text
AttributeOrText(e) ==
    IF "datetime" \in DOMAIN e.attrs /\ e.attrs["datetime"] # ""
    THEN e.attrs["datetime"]
    ELSE Strip(get_text(e))

\* the selectors, by place in the order, whose first element yields a value
SelectorOrder ==
    <<"time", "[datetime]", ".date", ".published", ".post-date", ".meta-date",
      ".publish-date">>
SelectorsWithValue(soup) ==
    {k \in 1..Len(SelectorOrder) :
        LET Yields(found) == Len(found) > 0 /\ AttributeOrText(found[1].node) # ""
        IN Yields(FindAll(soup, SelectorOrder[k]))}

\* the pattern matches in the heading's container, none without a heading
HeadingMatches ==
    IF Len(FindAll(call.net.doc, "h1")) > 0 THEN PatternMatches(HeadingText) ELSE {}

C23_SelectorsAfterPatterns ==
    LET Selected(soup, places) ==
            IF places = {} THEN RetPost.date = JStr("Date not found")
            ELSE RetPost.date
                   = JStr(AttributeOrText(FindAll(soup, SelectorOrder[FirstOf(places)])[1].node))
        Holds(matches) ==
            IF matches = {}
            THEN Selected(call.net.doc, SelectorsWithValue(call.net.doc))
            ELSE EndsWith(Preferred(matches).match.text, RetPost.date.s)
    IN PageScraped => Holds(HeadingMatches)

\* no heading; the first time element is empty, so the datetime attribute of
\* the span is taken, before its text and before the second time element
C23_Witness ==
    /\ PageScraped
    /\ call.net.doc = Page(1, 6, 2)
    /\ HeadingMatches = {}
    /\ SelectorsWithValue(call.net.doc) = {2}
    /\ RetPost.date = JStr("2024-01-01")

(***************************************************************************)
(* C24: when no content selector yields content, the content is the        *)
(* blank-line join of the non-empty paragraph texts of the whole document  *)
(* (as the content step sees it), in document order; when there is none    *)
(* the content is "Content not found"; the content of a scraped page is    *)
(* never the empty string.                                                 *)
(***************************************************************************)
\* the non-empty texts of the paragraphs of a document, in document order
TextsOfParagraphs(soup) ==
    SelectSeq([i \in 1..Len(FindAll(soup, "p")) |->
                   Strip(get_text(FindAll(soup, "p")[i].node))],
              LAMBDA text : text # "")

C24_FallbackToAllParagraphs ==
    LET Fallback(texts) ==
            RetPost.content = JStr(IF texts = <<>> THEN "Content not found"
                                   ELSE Join(texts, "\n\n"))
        Holds(soup) ==
            /\ RetPost.content # JStr("")
            /\ SelectorsWithText(soup) = {} => Fallback(TextsOfParagraphs(soup))
    IN PageScraped => Holds(StrippedPage)

\* three paragraphs outside every container, the second one empty
C24_Witness ==
    /\ PageScraped
    /\ SelectorsWithText(StrippedPage) = {}
    /\ Len(FindAll(StrippedPage, "p")) = 3
    /\ Len(TextsOfParagraphs(StrippedPage)) = 2
    /\ RetPost.content = JStr("First paragraph\n\nThird paragraph")

\* a page whose only paragraph is blank
C24_WitnessNotFound ==
    /\ PageScraped
    /\ Len(FindAll(StrippedPage, "p")) = 1
    /\ RetPost.content = JStr("Content not found")

(***************************************************************************)
(* C25: no text that stands inside a script, style, nav, header or footer  *)
(* element appears in the content, whether the content comes from a        *)
(* container or from the paragraphs of the whole document, paragraphs      *)
(* nested in those elements included.  (The modelled pages use a text in   *)
(* one place only.)                                                        *)
(***************************************************************************)
RemovedTags == {"script", "style", "nav", "header", "footer"}

\* the non-blank texts that stand inside an element of one of the tags
TextsInside(soup, tags) ==
    LET Of(strings) == {Strip(strings[i]) : i \in 1..Len(strings)} \ {""}
        Under(found) == UNION {Of(Strings(found[i].node)) : i \in 1..Len(found)}
    IN UNION {Under(FindAll(soup, tag)) : tag \in tags}

C25_RemovedElementsStayOut ==
    PageScraped =>
        \A text \in TextsInside(call.net.doc, RemovedTags) :
            ~Contains(RetPost.content.s, text)

\* the content comes from main, which holds a nav and a footer with
\* paragraphs and a paragraph with a script in it
C25_Witness ==
    /\ PageScraped
    /\ {"Menu", "Legal", "var y;", "p {}"} \subseteq TextsInside(call.net.doc, RemovedTags)
    /\ Len(FindAll(FindAll(call.net.doc, "main")[1].node, "p")) = 3
    /\ RetPost.content = JStr("Body.")

\* the content comes from the paragraphs of the whole document
C25_WitnessFallback ==
    /\ PageScraped
    /\ "Menu" \in TextsInside(call.net.doc, RemovedTags)
    /\ SelectorsWithText(StrippedPage) = {}
    /\ RetPost.content = JStr("Loose.")

(***************************************************************************)
(* C26: text extraction returns a string, without raising, for every       *)
(* rich-text tree, however deep; a container without children, a text      *)
(* node without a value and a node that is neither a text node nor a       *)
(* container each yield the empty string, not an error: the text of their  *)
(* siblings is still extracted.                                            *)
(***************************************************************************)
ContentExtracted == call.op = "_extract_content_from_json"

C26_ExtractionIsTotal ==
    ContentExtracted =>
        /\ ret.type = "str"
        /\ \A odd \in OddNodes :
            /\ call.arg = RichDoc(<<odd>>) => ret.text = ""
            /\ call.arg = RichDoc(<<TextNode("a"), odd, TextNode("b")>>)
                    => ret.text = "a  b"
            /\ call.arg = RichDoc(<<Para(<<TextNode("a"), odd>>), TextNode("b")>>)
                    => ret.text = "a  b"
        /\ \A depth \in 0..MaxDepth :
            call.arg = RichDoc(<<Nested(depth), TextNode("b")>>) => ret.text = "a b"

\* a text node without a value between two text nodes
C26_Witness ==
    /\ ContentExtracted
    /\ call.arg = RichDoc(<<TextNode("a"), JDict([nodeType |-> JStr("text")]),
                            TextNode("b")>>)
    /\ ret = RetStr("a  b")

\* the deepest tree
C26_WitnessDeep ==
    /\ ContentExtracted
    /\ call.arg = RichDoc(<<Nested(MaxDepth), TextNode("b")>>)
    /\ ret = RetStr("a b")

(***************************************************************************)
(* C27: every record fetch_single_post returns on a non-success path       *)
(* (transport error, GraphQL errors, entry missing from the response,      *)
(* entry extraction failed) has the requested entry_id as its id and an    *)
(* empty date, author and url; on the success path alone the id is the     *)
(* entry's own sys.id.                                                     *)
(***************************************************************************)
SingleFetched == call.op = "fetch_single_post"

\* the entry an error-free 2xx/3xx JSON response holds for the content
\* type, null when there is none
ReceivedEntry ==
    IF /\ call.net.kind = "http" /\ call.net.isjson
       /\ ~(call.net.status >= 400 /\ call.net.status < 600)
       /\ call.net.json.t = "dict"
       /\ ~HasKey(call.net.json, "errors")
       /\ Get(call.net.json, "data", JNull).t = "dict"
    THEN Get(call.net.json.d["data"], call.content_type, JNull)
    ELSE JNull

OnSuccessPath ==
    Truthy(ReceivedEntry) /\ ~IsNone(_extract_graphql_post_data(ReceivedEntry))

C27_ErrorRecordsKeepRequestedId ==
    SingleFetched =>
        IF OnSuccessPath
        THEN RetPost.id = TryGet2(ReceivedEntry, "sys", "id", JStr("")).val
        ELSE /\ RetPost.id = JStr(call.entry_id)
             /\ RetPost.date = JStr("") /\ RetPost.author = JStr("")
             /\ RetPost.url = JStr("")

\* the response holds entry e1, whose author is a list so that extraction
\* fails; the record carries the id that was asked for
C27_Witness ==
    /\ SingleFetched
    /\ call.entry_id = "missing"
    /\ ReceivedEntry = Items[4]
    /\ ~OnSuccessPath
    /\ RetPost.content = JStr("Post data could not be extracted")
    /\ RetPost.id = JStr("missing")

\* the same request answered with an entry that extracts: the id is e1
C27_WitnessSuccess ==
    /\ SingleFetched
    /\ call.entry_id = "missing"
    /\ OnSuccessPath
    /\ RetPost.id = JStr("e1")

(***************************************************************************)
(* C28: fetch_blog_post resolves the title and the date before it removes  *)
(* the script, style, nav, header and footer elements, and the content     *)
(* after: a level-1 heading or a date inside a header, nav or footer still *)
(* gives the title or the date, and no text of those elements reaches the  *)
(* content.                                                                *)
(***************************************************************************)
\* the place of a step in the log
StepAt(what) == CHOOSE i \in 1..Len(log) : log[i].what = what
StepsLogged(names) == \A n \in names : \E i \in 1..Len(log) : log[i].what = n

\* the title and the date that the page as received determines
TitleOfWholePage ==
    Len(FindAll(call.net.doc, "h1")) > 0
        => RetPost.title = JStr(get_text_strip(FindAll(call.net.doc, "h1")[1].node))
DateOfWholePage ==
    LET Selected(places) ==
            places # {} =>
                RetPost.date
                  = JStr(AttributeOrText(
                           FindAll(call.net.doc, SelectorOrder[FirstOf(places)])[1].node))
        Holds(matches) ==
            IF matches = {} THEN Selected(SelectorsWithValue(call.net.doc))
            ELSE EndsWith(Preferred(matches).match.text, RetPost.date.s)
                 /\ RetPost.date.s # ""
    IN Holds(HeadingMatches)

C28_TitleAndDateBeforeRemoval ==
    PageScraped =>
        /\ StepsLogged({"title", "date", "decompose", "content"})
        /\ StepAt("title") < StepAt("decompose")
        /\ StepAt("date") < StepAt("decompose")
        /\ StepAt("decompose") < StepAt("content")
        /\ TitleOfWholePage
        /\ DateOfWholePage
        /\ \A text \in TextsInside(call.net.doc, RemovedTags) :
                ~Contains(RetPost.content.s, text)

\* the heading and the date stand in a header, the content next to a nav
C28_Witness ==
    /\ PageScraped
    /\ call.net.doc = Page(4, 1, 5)
    /\ FindAll(call.net.doc, "h1")[1].parent.tag = "header"
    /\ RetPost.title = JStr("Adopting AI")
    /\ RetPost.date = JStr("July 15, 2024")
    /\ RetPost.content = JStr("Loose.")

\* no heading, and the only date stands in a footer
C28_WitnessFooter ==
    /\ PageScraped
    /\ call.net.doc = Page(1, 4, 5)
    /\ FindAll(call.net.doc, "time")[1].parent.tag = "footer"
    /\ RetPost.date = JStr("5 May 2023")

(***************************************************************************)
(* C29: _summarize_post invokes the summarizer if and only if the content  *)
(* of the fetched record does not contain the lower-case substring         *)
(* "error"; a successfully extracted post whose text contains the word     *)
(* "error" is returned as the raw six-field Post, without a summary, and   *)
(* the summarizer is not called for it.                                    *)
(***************************************************************************)
\* _summarize_post got as far as fetching the record
RecordFetched == call.op = "_summarize_post" /\ ~NotConfigured(call.env)

LowercaseError(text) ==
    \E i \in 1..(Len(text) - 4) : SubSeq(text, i, i + 4) = "error"

C29_SummarizedUnlessLowercaseError ==
    RecordFetched =>
        /\ SummarizerCalled <=> ~LowercaseError(FetchedPost.content.s)
        /\ LowercaseError(FetchedPost.content.s) =>
                /\ RetPost = FetchedPost
                /\ DOMAIN RetPost = CmsFields

\* an entry about an error budget is extracted and comes back unsummarized
C29_Witness ==
    /\ RecordFetched
    /\ ~IsSingleErrorMarker(FetchedPost)
    /\ FetchedPost.title = JStr("Post A")
    /\ FetchedPost.content = JStr("An error budget")
    /\ RetPost = FetchedPost
    /\ ~SummarizerCalled

\* a record without the substring is summarized
C29_WitnessSummarized ==
    /\ RecordFetched
    /\ FetchedPost.content = JStr("Hello world")
    /\ SummarizerCalled
    /\ RetPost.summary = JStr("A short summary.")

(***************************************************************************)
(* C30: fetch_blog_posts, search_blog_posts, advanced_search_blog_posts    *)
(* and fetch_single_post return their error marker whenever the response   *)
(* body has an "errors" key, whatever its value (an empty list included)   *)
(* and also when the body carries data; no entry of the response is        *)
(* extracted or returned.                                                  *)
(***************************************************************************)
\* the body of the response is a JSON object with an "errors" key
BodyHasErrorsKey ==
    /\ call.op \in CollectionOps \cup {"fetch_single_post"}
    /\ call.net.kind = "http" /\ call.net.isjson
    /\ call.net.json.t = "dict"
    /\ "errors" \in DOMAIN call.net.json.d

\* the title of the operation's error marker
MarkerTitle ==
    CASE call.op = "fetch_blog_posts" -> "Error fetching from Contentful"
      [] call.op = "search_blog_posts" ->
            "Error searching Contentful for '" \o call.query \o "'"
      [] call.op = "advanced_search_blog_posts" ->
            "Error in advanced search for '" \o call.query \o "'"
      [] call.op = "fetch_single_post" -> "Error fetching post"

\* the content of the marker of a response that was read
ErrorsContent ==
    (IF call.op \in {"fetch_blog_posts", "fetch_single_post"}
     THEN "GraphQL errors: " ELSE "Search error: ")
    \o PyStr(call.net.json.d["errors"])

C30_ErrorsKeyGivesMarker ==
    BodyHasErrorsKey =>
        /\ Len(ret.posts) = 1
        /\ RetPost.title = JStr(MarkerTitle)
        /\ RetPost.date = JStr("") /\ RetPost.author = JStr("")
        /\ RetPost.url = JStr("")
        /\ RetPost.id = JStr(IF call.op = "fetch_single_post" THEN call.entry_id ELSE "")
        /\ call.net.status < 400 => RetPost.content = JStr(ErrorsContent)

\* an empty error list next to a collection that holds an entry
C30_Witness ==
    /\ BodyHasErrorsKey
    /\ call.op = "fetch_blog_posts"
    /\ call.net.status = 200
    /\ call.net.json.d["errors"] = JList(<<>>)
    /\ ItemsOf(call.net.json, call.content_type).val = JList(<<Items[1]>>)
    /\ ret.posts = _error_response("GraphQL errors: []")

\* the same for a single entry
C30_WitnessSingle ==
    /\ BodyHasErrorsKey
    /\ call.op = "fetch_single_post"
    /\ call.net.status = 200
    /\ call.net.json.d["errors"] = JNull
    /\ Get(call.net.json.d["data"], call.content_type, JNull) = Items[1]
    /\ RetPost.content = JStr("GraphQL errors: None")
    /\ RetPost.id = JStr(call.entry_id)

====
